---- MODULE Spec2Model ----
(***************************************************************************)
(* Model of the passive local segment store of VAST                        *)
(* (libvast/src/system/local_segment_store.cpp), its clients and the       *)
(* filesystem actor it talks to.                                           *)
(*                                                                         *)
(* The store is a CAF (0.17) actor: it handles one message of its mailbox  *)
(* to completion before the next.  Every handler of the source is one      *)
(* action below.  Messages of other actors (clients, filesystem) are       *)
(* appended to the mailbox when they are sent.                             *)
(***************************************************************************)
EXTENDS Integers, Sequences, FiniteSets, TLC

\* ---------------------------------------------------------------- bounds
\* Number of requests the clients send in one run.
MaxReq == 2
\* Number of exit messages other actors send to the store in one run.
MaxExit == 1
\* Highest record id of the segment the store is opened on.
MaxId == 2
\* Highest record id of the segments of the lookup specification.
MaxRow == 4
\* Slices of one batch of the inbound stream, at most.
MaxBatch == 2
\* Records of one streamed slice, at most.
MaxSliceRows == 1
\* Records streamed to the active store, at most.
MaxIngest == 3
\* Query supervisors of the index (workers).
MaxWorkers == 2
\* Queries the clients send to the index, at most.
MaxQueries == 3
\* Partition failures, at most.
MaxFail == 1
\* Partitions asked by all queries together, at most.
MaxFanout == 4
\* Partitions the index creates, at most.
MaxPartitions == 5
\* Events a partition holds, at most (partition_capacity).
MaxCapacity == 3
\* Passive partitions loaded in memory, at most (max_inmem_partitions).
MaxInmem == 2
\* Ids of a slice the index ingests, at most.
MaxSliceIds == 2
\* Events the index ingests, at most.
MaxEvents == 13
\* Partitions loaded for queries, at most.
MaxLoads == 4
\* Bits of the sink's event counters (uint64_t in the program).
SinkBits == 4
\* Events of one batch given to the sink, at most.
MaxBatchEvents == 3
\* Highest limit given to the sink at spawn or by (limit_atom, max).
MaxLimit == 5
\* Lines of the file the reader is opened on, at most.
MaxLines == 3
\* Highest batch_size of an extract request.
MaxBatchSize == 2
\* Extract requests sent to the reader, at most.
MaxExtract == 3
\* Bits of the integer type T of the zig-zag coding (int8_t, uint8_t).
ZigzagBits == 8
\* Blocks of a Bloom filter, at most.
MaxBlocks == 3
\* Elements added to the two Bloom filters together, at most.
MaxAdds == 2

\* ---------------------------------------------------------------- values
\* Ids of the records of the segment file the store is opened on.
Original == 1..MaxId
\* The id sets that requests carry.
IdSets == {{i} : i \in Original}

\* The path the store is opened with, and the sibling with extension "next".
StorePath == "archive/X.store"
NextPath == "archive/X.next"
Paths == {StorePath, NextPath}

\* std::filesystem::path::replace_extension("next"): the extension of the
\* last component is replaced, whatever it was.
ReplaceExtension(p) == NextPath

\* File contents.
Absent == [kind |-> "absent", ids |-> {}]
Partial == [kind |-> "partial", ids |-> {}]
Garbage == [kind |-> "garbage", ids |-> {}]
Complete(S) == [kind |-> "complete", ids |-> S]

\* The requester of a message or promise that has none.
NoSource == 0

\* caf::typed_response_promise<atom::done>(): the default constructor makes
\* an invalid promise: it has no source to answer to and no message id.
DefaultPromise == [source |-> NoSource]

\* segment::copy_without(s, xs): the segment without the records in xs.
CopyWithout(seg, xs) == seg \ xs

RECURSIVE MapSeq(_, _)
MapSeq(Op(_), s) ==
  IF s = <<>> THEN <<>> ELSE <<Op(Head(s))>> \o MapSeq(Op, Tail(s))

RECURSIVE FlatMap(_, _)
FlatMap(Op(_), s) ==
  IF s = <<>> THEN <<>> ELSE Op(Head(s)) \o FlatMap(Op, Tail(s))

\* ---------------------------------------------------------------- slices
\* Layouts of table slices and the fields their records have.
Layouts == {"A", "B"}
Fields(layout) == IF layout = "A" THEN {"x"} ELSE {"x", "y"}

\* The value of field f of the record with the given id.
Value(id, f) == IF f = "x" THEN id % 2 ELSE (id \div 2) % 2

\* A table slice: its layout and the ids of its records.
Slice(layout, ids) == [layout |-> layout, ids |-> ids]

\* Expressions: the empty expression (expression{}) or a predicate f == v.
EmptyExpr == [field |-> "", value |-> 0]
Pred(f, v) == [field |-> f, value |-> v]
Exprs == {EmptyExpr} \cup {Pred(f, v) : f \in {"x", "y"}, v \in {0, 1}}

\* Queries: query.cmd is a count, an extract or an erase.
QueryCmds == {"count", "extract", "erase"}
CountQuery(mode, expr) ==
  [cmd |-> "count", mode |-> mode, policy |-> "", expr |-> expr]
ExtractQuery(policy, expr) ==
  [cmd |-> "extract", mode |-> "", policy |-> policy, expr |-> expr]
\* query::make_erase(expr)
MakeErase(expr) ==
  [cmd |-> "erase", mode |-> "", policy |-> "", expr |-> expr]

\* Mutant of HoldsErase: no query is taken for an erase.
HoldsEraseNever(query) == FALSE

\* caf::holds_alternative<query::erase>(query.cmd)
HoldsErase(query) == query.cmd = "erase"

\* The id ranges and layouts of the table slices of the segment the store is
\* opened on, in ascending order.
SliceRanges == [i \in 1..MaxId |-> {i}]
SliceLayout == [i \in 1..MaxId |-> IF i % 2 = 1 THEN "A" ELSE "B"]

\* The slices of the segment of the store that holds the records seg.
SegmentSlices(seg) ==
  [i \in 1..Len(SliceRanges) |-> Slice(SliceLayout[i], seg \cap SliceRanges[i])]

\* segment::lookup(ids) on the slices of a segment: the slices with a record
\* in ids, in ascending order.
RECURSIVE LookupFrom(_, _, _)
LookupFrom(slices, ids, i) ==
  IF i > Len(slices) THEN <<>>
  ELSE (IF slices[i].ids \cap ids # {} THEN <<slices[i]>> ELSE <<>>)
       \o LookupFrom(slices, ids, i + 1)

Lookup(seg, ids) == LookupFrom(SegmentSlices(seg), ids, 1)

\* lookup(ids) with ids empty or disjoint from the slices is a success: only
\* a lookup that has a record to return may fail.
LookupMayFail(slices, ids) ==
  \E i \in 1..Len(slices) : slices[i].ids \cap ids # {}

\* tailor(expr, layout): <<e>> on success, <<>> when the layout lacks the
\* field of the predicate.
Tailor(expr, layout) ==
  IF expr.field \in Fields(layout) THEN <<expr>> ELSE <<>>

\* prune_meta_predicates(e): the expressions here hold no meta predicate.
PruneMetaPredicates(e) == e

\* Record id satisfies the checker.
Matches(checker, id) ==
  checker = EmptyExpr \/ Value(id, checker.field) = checker.value

\* count_matching(slice, checker, ids)
CountMatching(slice, checker, ids) ==
  Cardinality({i \in slice.ids \cap ids : Matches(checker, i)})

\* evaluate(checker, slice): the ids of the records that satisfy the checker.
Evaluate(checker, slice) == {i \in slice.ids : Matches(checker, i)}

SetMin(S) == CHOOSE i \in S : \A j \in S : i <= j

\* The maximal runs of consecutive ids of S, ascending.
RECURSIVE Runs(_)
Runs(S) ==
  IF S = {} THEN <<>>
  ELSE LET lo == SetMin(S)
           hi == CHOOSE j \in S : /\ \A k \in lo..j : k \in S
                                  /\ j + 1 \notin S
                                  /\ j >= lo
       IN <<lo..hi>> \o Runs(S \ (lo..hi))

\* select(slice, ids): one sub-slice per run of selected records.
Select(slice, ids) ==
  LET runs == Runs(slice.ids \cap ids)
  IN [i \in 1..Len(runs) |-> Slice(slice.layout, runs[i])]

\* filter(slice, checker, ids): the selected records that satisfy the checker
\* as one slice, nothing if there is none.
Filter(slice, checker, ids) ==
  LET rows == {i \in slice.ids \cap ids : Matches(checker, i)}
  IN IF rows = {} THEN <<>> ELSE <<Slice(slice.layout, rows)>>

\* Messages to a sink.
CountMsg(n) == [kind |-> "count", n |-> n, slice |-> Slice("", {})]
SliceMsg(slice) == [kind |-> "slice", n |-> Cardinality(slice.ids), slice |-> slice]

\* Mutant of MakeCheckers: a slice whose tailoring fails is evaluated with
\* the empty checker instead of ending the request.
RECURSIVE MakeCheckersSkip(_, _, _)
MakeCheckersSkip(query, slices, i) ==
  IF i > Len(slices) THEN [ok |-> TRUE, checkers |-> <<>>]
  ELSE LET c == Tailor(query.expr, slices[i].layout)
           rest == MakeCheckersSkip(query, slices, i + 1)
       IN [ok |-> TRUE,
           checkers |-> <<IF c = <<>> THEN EmptyExpr ELSE c[1]>>
                        \o rest.checkers]

\* handle_lookup, first loop: one checker per slice; the first tailoring
\* failure ends the function.
RECURSIVE MakeCheckers(_, _, _)
MakeCheckers(query, slices, i) ==
  IF i > Len(slices) THEN [ok |-> TRUE, checkers |-> <<>>]
  ELSE IF query.expr = EmptyExpr
    THEN LET rest == MakeCheckers(query, slices, i + 1)
         IN [ok |-> rest.ok, checkers |-> <<EmptyExpr>> \o rest.checkers]
    ELSE LET c == Tailor(query.expr, slices[i].layout)
         IN IF c = <<>> THEN [ok |-> FALSE, checkers |-> <<>>]
            ELSE LET rest == MakeCheckers(query, slices, i + 1)
                 IN [ok |-> rest.ok,
                     checkers |-> <<PruneMetaPredicates(c[1])>> \o rest.checkers]

\* Mutant of CountResults: the count is not restricted to ids.
CountResultsAllIds(slices, checkers, ids) ==
  [i \in 1..Len(slices) |->
     CountMsg(CountMatching(slices[i], checkers[i], slices[i].ids))]

\* handle_lookup, count arm: one count_matching(slice, checker, ids) per slice.
CountResults(slices, checkers, ids) ==
  [i \in 1..Len(slices) |-> CountMsg(CountMatching(slices[i], checkers[i], ids))]

\* Mutant of PreserveIds: the slice is evaluated without restricting it to
\* ids first.
PreserveIdsUnrestricted(query, slice, checker, ids) ==
  MapSeq(SliceMsg, Select(slice, Evaluate(checker, slice)))

\* handle_lookup, extract arm, policy preserve_ids, for one slice.
PreserveIds(query, slice, checker, ids) ==
  LET sub == Select(slice, ids)
      final(sub_slice) ==
        IF query.expr = EmptyExpr THEN <<SliceMsg(sub_slice)>>
        ELSE MapSeq(SliceMsg, Select(sub_slice, Evaluate(checker, sub_slice)))
  IN FlatMap(final, sub)

\* Mutant of DropIds: an empty result is sent as well.
DropIdsKeepEmpty(slice, checker, ids) ==
  LET f == Filter(slice, checker, ids)
  IN IF f = <<>> THEN <<SliceMsg(Slice(slice.layout, {}))>>
     ELSE MapSeq(SliceMsg, f)

\* handle_lookup, extract arm, policy drop_ids, for one slice.
DropIds(slice, checker, ids) == MapSeq(SliceMsg, Filter(slice, checker, ids))

\* handle_lookup, extract arm.
RECURSIVE ExtractResults(_, _, _, _, _)
ExtractResults(query, slices, checkers, ids, i) ==
  IF i > Len(slices) THEN <<>>
  ELSE (IF query.policy = "preserve_ids"
          THEN PreserveIds(query, slices[i], checkers[i], ids)
          ELSE DropIds(slices[i], checkers[i], ids))
       \o ExtractResults(query, slices, checkers, ids, i + 1)

\* Mutant of HandleLookup: a count with mode estimate is answered like an
\* exact one.
HandleLookupNoDie(query, ids, slices) ==
  LET c == MakeCheckers(query, slices, 1) IN
  IF ~c.ok THEN [result |-> "error", sent |-> <<>>]
  ELSE IF query.cmd = "count"
    THEN [result |-> "done", sent |-> CountResults(slices, c.checkers, ids)]
  ELSE IF query.cmd = "extract"
    THEN [result |-> "done",
          sent |-> ExtractResults(query, slices, c.checkers, ids, 1)]
  ELSE [result |-> "assert", sent |-> <<>>]

\* Mutant of HandleLookup: a request for which lookup returned no slice ends
\* with an error.
HandleLookupEmptyFails(query, ids, slices) ==
  IF slices = <<>> THEN [result |-> "error", sent |-> <<>>]
  ELSE HandleLookupNoDie(query, ids, slices)

\* handle_lookup(self, query, ids, slices): what is sent to the sink and how
\* the function ends: "done", "error" (tailoring failed), "die" (the process
\* is aborted) or "assert" (the assertion of the erase arm).
HandleLookup(query, ids, slices) ==
  LET c == MakeCheckers(query, slices, 1) IN
  IF ~c.ok THEN [result |-> "error", sent |-> <<>>]
  ELSE IF query.cmd = "count"
    THEN IF query.mode = "estimate"
           THEN [result |-> "die", sent |-> <<>>]
           ELSE [result |-> "done",
                 sent |-> CountResults(slices, c.checkers, ids)]
  ELSE IF query.cmd = "extract"
    THEN [result |-> "done",
          sent |-> ExtractResults(query, slices, c.checkers, ids, 1)]
  ELSE [result |-> "assert", sent |-> <<>>]

\* ---------------------------------------------------------------- state
VARIABLES
  status,             \* "running" or "exited": the store actor
  segment,            \* self->state.segment: <<>> (unset) or <<ids>>
  deferred_requests,  \* self->state.deferred_requests
  path,               \* self->state.path
  mailbox,            \* the store's mailbox
  responses,          \* responses delivered to requesters, in order
  sink,               \* messages sent to the queries' sinks, in order
  fsq,                \* requests in the filesystem actor's mailbox
  fsWriting,          \* <<>> or <<w>>: the write the filesystem is doing
  files,              \* the directory: path -> contents
  crashed,            \* the process was killed
  nreq,               \* requests sent so far
  nexit,              \* exit messages sent so far
  hist,               \* history of the run (observations, not program state)
  lkIn,               \* a loaded store's segment and the request it is given
  lkOut,              \* <<>> or <<r>>: what handling this request did
  builder,            \* the active store's self->state.builder
  astatus,            \* "running" or "exited": the active store actor
  amailbox,           \* the active store's mailbox
  aresponses,         \* responses delivered to the active store's requesters
  asink,              \* messages the active store sent to the queries' sinks
  afsq,               \* the active store's write requests at the filesystem
  stream,             \* "none", "pending", "open" or "closed": the inbound stream
  areq,               \* requests sent to the active store so far
  aexit,              \* exit messages sent to the active store so far
  arow,               \* records streamed to the active store so far
  ahist,              \* history of the active store's run (observations)
  idxbox,             \* the mailbox of the index (the supervisors' master)
  idle_workers,       \* index_state::idle_workers, in insertion order
  backlog,            \* index_state::backlog: the queues normal and low
  spawned,            \* the query supervisors spawned so far
  svbox,              \* the mailbox of every query supervisor
  svjob,              \* per supervisor: the requests it works on
  pbox,               \* the mailbox of every partition
  cin,                \* per query: what its sink has received, in order
  nquery,             \* queries sent to the index so far
  nasked,             \* partitions the queries sent so far ask, in total
  nfail,              \* partition failures so far
  qhist,              \* history of the query dispatch (observations)
  active_partition,   \* index_state::active_partition: id, capacity, events
  unpersisted,        \* index_state::unpersisted: the ids of the map
  writing,            \* the partitions whose synopsis is being written
  inmem_partitions,   \* index_state::inmem_partitions: ids, oldest first
  persisted_partitions, \* index_state::persisted_partitions
  ningested,          \* events ingested so far
  nload,              \* partitions loaded for queries so far
  phist,              \* history of the partitions (observations)
  processed,          \* sink_state::processed
  max_events,         \* sink_state::max_events
  sstatus,            \* "running" or "exited": the sink actor
  writer,             \* the sink's writer: events passed to it, unflushed
  shist,              \* history of the sink (observations)
  file_,              \* reader::file_: the lines left and the fail state
  total_events_,      \* reader::total_events_
  rstatus,            \* "running" or "exited": the reader actor
  upstream,           \* the batches the reader sent to upstream_, in order
  replies,            \* the replies of the reader, in order
  rhist,              \* history of the reader (observations)
  zin,                \* the integer given to the zig-zag coding
  zout,               \* the values the coding produced from it, in order
  filters,            \* two blocked Bloom filters: num_blocks_, blocks_
  bfout,              \* results of lookup and of operator==
  bfhist              \* history of the filters (observations)

storeVars == <<status, segment, deferred_requests, path>>
fsVars == <<fsq, fsWriting, files>>
passiveVars == <<status, segment, deferred_requests, path, mailbox, responses,
                 sink, fsq, fsWriting, files, crashed, nreq, nexit, hist>>
lkVars == <<lkIn, lkOut>>
activeVars == <<builder, astatus, amailbox, aresponses, asink, afsq, stream,
                areq, aexit, arow, ahist>>
queryVars == <<idxbox, idle_workers, backlog, spawned, svbox, svjob, pbox,
               cin, nquery, nasked, nfail, qhist>>
partVars == <<active_partition, unpersisted, writing, inmem_partitions,
              persisted_partitions, ningested, nload, phist>>
\* The variables of the index and its supervisors.
sinkVars == <<processed, max_events, sstatus, writer, shist>>
readerVars == <<file_, total_events_, rstatus, upstream, replies, rhist>>
zigzagVars == <<zin, zout>>
bloomVars == <<filters, bfout, bfhist>>
toolVars == <<sinkVars, readerVars, zigzagVars, bloomVars>>
restVars == <<queryVars, partVars, toolVars>>
\* What the actions of the passive store and its environment leave alone.
otherVars == <<lkVars, activeVars, restVars>>
\* What the actions of the active store leave alone, but for the directory
\* and the process.
passiveRest == <<status, segment, deferred_requests, path, mailbox, responses,
                 sink, fsq, fsWriting, nreq, nexit, hist>>
vars == <<passiveVars, otherVars>>

\* ---------------------------------------------------------------- messages
Msg(kind) ==
  [kind |-> kind, cmd |-> "none", query |-> MakeErase(EmptyExpr), ids |-> {},
   req |-> NoSource, orig |-> 0, chunk |-> Absent, seg |-> {},
   old_path |-> "", new_path |-> ""]

QueryMsg(query, ids, req, orig) ==
  [Msg("query") EXCEPT !.cmd = query.cmd, !.query = query, !.ids = ids,
                       !.req = req, !.orig = orig]

EraseMsg(ids, req, orig) ==
  [Msg("erase") EXCEPT !.cmd = "erase", !.ids = ids, !.req = req,
                       !.orig = orig]

IsRequest(m) == m.kind \in {"query", "erase"}

\* A response message to the requester; nothing if there is no requester.
Respond(req, outcome) ==
  IF req = NoSource THEN <<>> ELSE <<[req |-> req, outcome |-> outcome]>>

\* The outcome delivered for request r, "none" if there is none.
Outcome(r) ==
  IF \E i \in 1..Len(responses) : responses[i].req = r
    THEN responses[CHOOSE i \in 1..Len(responses) : responses[i].req = r].outcome
    ELSE "none"

\* A terminated actor bounces the requests of its mailbox.
Bounce(m) ==
  IF IsRequest(m) THEN Respond(m.req, "request_receiver_down") ELSE <<>>

\* A message sent to the store: enqueued while the store runs.
Deliver(mb, m) == IF status = "running" THEN Append(mb, m) ELSE mb

Range(s) == {s[i] : i \in 1..Len(s)}

\* ---------------------------------------------------------------- history
InitHist ==
  [wasDeferred |-> <<>>,    \* requests deferred before the load completed
   loadFailed |-> "none",   \* "mmap" or "parse" once loading failed
   failedDeferred |-> {},   \* requests in the queue when loading failed
   cancelled |-> {},        \* requests in the queue when an exit was handled
   exitsHandled |-> 0,
   queueAfterExit |-> 0,    \* length of the queue when the exit handler ended
   erasedDone |-> {},       \* ids of erases answered with done
   lookups |-> {},          \* (segment, erasedDone) of every evaluated query
   lookupCmds |-> {},       \* commands of the queries given to handle_lookup
   delegated |-> {},        \* erase queries delegated to the erase handler
   doneErases |-> {},       \* erase requests answered with done
   committed |-> {},        \* erases whose write and rename succeeded
   writeFailed |-> {},      \* erases whose write failed
   renameFailed |-> {},     \* erases whose rename failed
   swapped |-> {},          \* erases whose segment became the in-memory one
   committedIds |-> {},     \* ids of the erases in committed
   nerase |-> 0,            \* erases that issued a write
   sentLoaded |-> {},       \* requests sent when the segment was loaded
   applied |-> <<>>,        \* requests evaluated or applied, in order
   overlap |-> {}]          \* erases handled while a write was outstanding

\* ---------------------------------------------------------------- Init
\* passive_local_store(self, fs, path): the exit handler is installed and the
\* mmap request is sent; the segment is not loaded yet.  The function never
\* assigns self->state.path and self->state.fs; the erase handler asserts
\* state.path.has_filename() and sends its write to state.fs, so the state is
\* taken to hold the path and the filesystem the store was opened with.
StoreInit ==
  /\ status = "running"
  /\ segment = <<>>
  /\ deferred_requests = <<>>
  /\ path = StorePath
  /\ mailbox = <<>>
  /\ responses = <<>>
  /\ sink = <<>>
  /\ fsq = <<[Msg("mmap") EXCEPT !.new_path = StorePath]>>
  /\ fsWriting = <<>>
  /\ \E c \in {Complete(Original), Garbage} :
       files = [p \in Paths |-> IF p = StorePath THEN c ELSE Absent]
  /\ crashed = FALSE
  /\ nreq = 0
  /\ nexit = 0
  /\ hist = InitHist

\* No request is given to the loaded store of the lookup specification.
NoInput == [segment |-> <<>>, query |-> MakeErase(EmptyExpr), ids |-> {}]
LookupParked == lkIn = NoInput /\ lkOut = <<>>

\* ---------------------------------------------------------------- builder
\* The segment builder and the sealed segment of the active store.  A
\* builder is [id, slices, usable]; a segment is [id, slices].

\* Streamed slices carry one of two definitions of the layout named "A".
IngestLayouts == {"A", "A2"}
LayoutName(layout) == IF layout = "A2" THEN "A" ELSE layout
Conflicts(l1, l2) == LayoutName(l1) = LayoutName(l2) /\ l1 # l2

NoUuid == "nil"
BuilderUuid == "U"

\* std::make_unique<segment_builder>(max_segment_size)
NewBuilder == [id |-> BuilderUuid, slices |-> <<>>, usable |-> TRUE]

\* builder->add(slice): fails when the layout of the slice conflicts with a
\* layout already added, and on a builder that was sealed and not reset.
BuilderAdd(b, slice) ==
  IF \/ ~b.usable
     \/ \E i \in 1..Len(b.slices) : Conflicts(b.slices[i].layout, slice.layout)
    THEN [ok |-> FALSE, builder |-> b]
    ELSE [ok |-> TRUE, builder |-> [b EXCEPT !.slices = Append(@, slice)]]

\* builder->finish(): the segment, and the builder it leaves behind.
BuilderFinish(b) ==
  [seg |-> [id |-> b.id, slices |-> b.slices],
   builder |-> [id |-> NoUuid, slices |-> <<>>, usable |-> FALSE]]

\* builder->reset(id)
BuilderReset(b, id) == [id |-> id, slices |-> <<>>, usable |-> TRUE]

\* builder->lookup(ids), when it succeeds
BuilderLookup(b, ids) == LookupFrom(b.slices, ids, 1)

\* seg.erase(ids), when it succeeds: of every slice the runs of the records
\* that are kept.
SegmentErase(seg, ids) ==
  LET keep(slice) == Select(slice, slice.ids \ ids)
  IN FlatMap(keep, seg.slices)

\* The records of a sequence of slices.
IdsOf(slices) == UNION {slices[i].ids : i \in 1..Len(slices)}

\* Mutant of AddBatch: the first failing add ends the batch.
RECURSIVE AddBatchStopAtError(_, _)
AddBatchStopAtError(b, batch) ==
  IF batch = <<>> THEN [builder |-> b, added |-> {}]
  ELSE LET a == BuilderAdd(b, Head(batch)) IN
       IF ~a.ok THEN [builder |-> b, added |-> {}]
       ELSE LET rest == AddBatchStopAtError(a.builder, Tail(batch))
            IN [builder |-> rest.builder,
                added |-> Head(batch).ids \cup rest.added]

\* The batch callback of the stream: every slice of the batch is added, a
\* failure is logged.  added: the records of the slices that were added.
RECURSIVE AddBatch(_, _)
AddBatch(b, batch) ==
  IF batch = <<>> THEN [builder |-> b, added |-> {}]
  ELSE LET a == BuilderAdd(b, Head(batch))
           rest == AddBatch(a.builder, Tail(batch))
       IN [builder |-> rest.builder,
           added |-> (IF a.ok THEN Head(batch).ids ELSE {}) \cup rest.added]

\* Mutant of EraseReplay: the builder is not reset before the replay.
EraseReplayNoReset(b, seg, slices) ==
  AddBatch(b, slices).builder

\* The erase handler after a successful seg.erase(ids): reset(id) and add
\* of every remaining slice; b is the builder that finish() left behind.
EraseReplay(b, seg, slices) ==
  AddBatch(BuilderReset(b, seg.id), slices).builder

InitAHist ==
  [lookupCmds |-> {},     \* commands of the queries given to handle_lookup
   delegated |-> 0,       \* erase queries delegated to the erase handler
   added |-> {},          \* records added and not erased since
   lastErase |-> <<>>,    \* the last erase handled: builder before and after
   lastBatch |-> <<>>,    \* the last batch handled: builder before and after
   failedAdds |-> 0,      \* adds of streamed slices that failed
   failedErases |-> 0,    \* erases answered with an error
   writes |-> <<>>,       \* write requests issued, in order
   acks |-> 0]            \* write requests the filesystem has answered

\* active_local_store(self, fs, path): the builder is created and the exit
\* handler installed.
ActiveInit ==
  /\ builder = NewBuilder
  /\ astatus = "running"
  /\ amailbox = <<>>
  /\ aresponses = <<>>
  /\ asink = <<>>
  /\ afsq = <<>>
  /\ stream = "none"
  /\ areq = 0
  /\ aexit = 0
  /\ arow = 0
  /\ ahist = InitAHist

\* The active store of the other specifications is not running and its
\* clients have nothing to send.
ActiveParked ==
  /\ builder = NewBuilder
  /\ astatus = "exited"
  /\ amailbox = <<>>
  /\ aresponses = <<>>
  /\ asink = <<>>
  /\ afsq = <<>>
  /\ stream = "closed"
  /\ areq = MaxReq
  /\ aexit = MaxExit
  /\ arow = MaxIngest
  /\ ahist = InitAHist

\* ---------------------------------------------------------------- index
\* The index, its query supervisors and the partitions they ask.  Every
\* actor handles one message of its mailbox to completion; a message is
\* appended to the receiver's mailbox when it is sent.

\* index_state::workers: the number of query supervisors.
workers == MaxWorkers
Supervisors == 1..workers
Queries == 1..MaxQueries

\* The partitions p0, p1, p2 and the ids each one was spawned with.
Partitions == {0, 1, 2}
PartitionIds ==
  [p \in Partitions |->
     CASE p = 0 -> {0, 2, 4, 6, 8}
       [] p = 1 -> {1, 7}
       [] p = 2 -> {3, 5}]
\* rank(x): the number of ids of x.
Rank(x) == Cardinality(x)
\* What a partition sends to the sink of a count query.
PartitionCountOne(p) == 1
PartitionCount(p) == Rank(PartitionIds[p])

\* The queues of the backlog.
Priorities == {"normal", "low"}
\* The query maps a supervise request carries: the partitions of one batch,
\* the first ones of the candidates p0, p1, p2.
QueryMaps == {0..k : k \in Partitions}

\* Messages to the index.
WorkerMsg(sv) == [type |-> "worker", sv |-> sv]
IndexQueryMsg(q, prio, qm) ==
  [type |-> "query", q |-> q, prio |-> prio, qm |-> qm]
\* Messages to a supervisor: the request and the partitions' responses.
SuperviseMsg(q, qm) == [type |-> "supervise", q |-> q, qm |-> qm]
DoneResponse(q, p) == [type |-> "done", q |-> q, p |-> p]
ErrorResponse(q, p) == [type |-> "error", q |-> q, p |-> p]
\* The query a supervisor sends to a partition.
PartitionQueryMsg(q, sv) == [q |-> q, sv |-> sv]
\* Messages to the sink of a query.
SinkCount(n) == [type |-> "count", n |-> n]
SinkDone == [type |-> "done"]
SinkError == [type |-> "error"]

\* What a supervisor sends to its master when it is spawned.
SpawnRegistersTwice(sv) == <<WorkerMsg(sv), WorkerMsg(sv)>>
SpawnRegistration(sv) == <<WorkerMsg(sv)>>

\* index_state::worker_available and next_worker: idle_workers is a stable
\* set, it keeps the order of insertion.
WorkerAvailable(idle) == idle # <<>>
NextWorker(idle) == Head(idle)
KeepWorker(idle) == idle
RemoveWorker(idle) == Tail(idle)
InsertWorker(idle, sv) ==
  IF \E i \in 1..Len(idle) : idle[i] = sv THEN idle ELSE Append(idle, sv)

\* query_backlog: emplace and take_next.
EmptyBacklog == [normal |-> <<>>, low |-> <<>>]
Emplace(bl, job) == [bl EXCEPT ![job.prio] = Append(@, job)]
TakeNextLowFirst(bl) ==
  IF bl.low # <<>>
    THEN [job |-> <<Head(bl.low)>>, rest |-> [bl EXCEPT !.low = Tail(@)]]
    ELSE IF bl.normal # <<>>
      THEN [job |-> <<Head(bl.normal)>>,
            rest |-> [bl EXCEPT !.normal = Tail(@)]]
      ELSE [job |-> <<>>, rest |-> bl]
TakeNext(bl) ==
  IF bl.normal # <<>>
    THEN [job |-> <<Head(bl.normal)>>,
          rest |-> [bl EXCEPT !.normal = Tail(@)]]
    ELSE IF bl.low # <<>>
      THEN [job |-> <<Head(bl.low)>>, rest |-> [bl EXCEPT !.low = Tail(@)]]
      ELSE [job |-> <<>>, rest |-> bl]

\* The supervisor's bookkeeping of one request: the partitions that have
\* not signalled yet.
AllSignalledEarly(open) == Cardinality(open) <= 1
AllSignalled(open) == open = {}
AfterDone(open, p) == open \ {p}
AfterErrorAbort(open, p) == {}
AfterError(open, p) == open \ {p}

\* Observations of the dispatch.
InitQHist ==
  [regs |-> [sv \in Supervisors |-> 0],
   supervised |-> [sv \in Supervisors |-> 0],
   finished |-> [sv \in Supervisors |-> 0],
   qm |-> [q \in Queries |-> {}],
   signalled |-> [q \in Queries |-> {}],
   failed |-> [q \in Queries |-> {}],
   finishedQ |-> {},
   noIdle |-> {},
   arrivals |-> EmptyBacklog,
   taken |-> EmptyBacklog,
   lowOverNormal |-> FALSE,
   dispatches |-> <<>>]

\* The index is constructed: its supervisors are created and have not
\* run yet, no query has arrived.
QueryInit ==
  /\ idxbox = <<>>
  /\ idle_workers = <<>>
  /\ backlog = EmptyBacklog
  /\ spawned = {}
  /\ svbox = [sv \in Supervisors |-> <<>>]
  /\ svjob = [sv \in Supervisors |-> {}]
  /\ pbox = [p \in Partitions |-> <<>>]
  /\ cin = [q \in Queries |-> <<>>]
  /\ nquery = 0
  /\ nasked = 0
  /\ nfail = 0
  /\ qhist = InitQHist

\* The index is absent: nothing is sent to it or to its supervisors.
QueryParked ==
  /\ idxbox = <<>>
  /\ idle_workers = <<>>
  /\ backlog = EmptyBacklog
  /\ spawned = Supervisors
  /\ svbox = [sv \in Supervisors |-> <<>>]
  /\ svjob = [sv \in Supervisors |-> {}]
  /\ pbox = [p \in Partitions |-> <<>>]
  /\ cin = [q \in Queries |-> <<>>]
  /\ nquery = MaxQueries
  /\ nasked = MaxFanout
  /\ nfail = MaxFail
  /\ qhist = InitQHist

\* ---------------------------------------------------------------- partitions
\* The partitions of the index: the active one, the ones being persisted
\* and the passive ones, some of them loaded in the LRU cache.

\* index_state::partition_capacity and max_inmem_partitions.
partition_capacity == MaxCapacity
max_inmem_partitions == MaxInmem
\* The ids of the partitions, in the order of their creation.
PartitionUuids == 1..MaxPartitions

\* create_active_partition: the new partition is empty.
CreateActivePartition(id) ==
  [id |-> id, capacity |-> partition_capacity, events |-> 0]
\* A slice of n ids is added to the active partition.
AddSlice(ap, n) ==
  [ap EXCEPT !.capacity = @ - n, !.events = @ + n]
\* The active partition is full.
NeverFull(ap) == FALSE
IsFull(ap) == ap.capacity = 0

\* decomission_active_partition: the partition is held in unpersisted
\* while its synopsis is written.
Decommission(unp, id) == unp \cup {id}
\* The partition graduates from unpersisted to persisted_partitions.
GraduateKept(unp, id) == unp
Graduate(unp, id) == unp \ {id}

\* The partitions a query is served from the LRU cache; the active and the
\* unpersisted ones are held outside of it.
ThroughCacheOrUnpersisted(id, persisted, unp) == id \in persisted \cup unp
ThroughCache(id, persisted, unp) == id \in persisted

\* lru_cache: the entries, oldest first.
CacheDrop(cache, id) == SelectSeq(cache, LAMBDA x : x # id)
\* An entry that is accessed or inserted becomes the newest one.
CacheTouch(cache, id) == Append(CacheDrop(cache, id), id)
\* On overflow the oldest entry is dropped.
CacheOverflows(cache) == Len(cache) > max_inmem_partitions
CacheEvicted(cache) == IF CacheOverflows(cache) THEN {Head(cache)} ELSE {}
CacheShrink(cache) == IF CacheOverflows(cache) THEN Tail(cache) ELSE cache

\* Observations of the partitions.
InitPHist ==
  [sizes |-> [id \in PartitionUuids |-> 0],
   evicted |-> {},
   evictedUnpersisted |-> {},
   served |-> {},
   failedWrites |-> {}]

\* The index is constructed with an empty active partition.
PartitionsInit ==
  /\ active_partition = CreateActivePartition(1)
  /\ unpersisted = {}
  /\ writing = {}
  /\ inmem_partitions = <<>>
  /\ persisted_partitions = {}
  /\ ningested = 0
  /\ nload = 0
  /\ phist = InitPHist

\* The index is absent: nothing is ingested or loaded.
PartitionsParked ==
  /\ active_partition = CreateActivePartition(1)
  /\ unpersisted = {}
  /\ writing = {}
  /\ inmem_partitions = <<>>
  /\ persisted_partitions = {}
  /\ ningested = MaxEvents
  /\ nload = MaxLoads
  /\ phist = InitPHist

\* ---------------------------------------------------------------- sink
\* std::numeric_limits<uint64_t>::max(), at the width of the model.
UintMax == 2^SinkBits - 1

\* Unsigned arithmetic at the width of the counters.
USub(a, b) == (a - b) % 2^SinkBits
UAdd(a, b) == (a + b) % 2^SinkBits

\* sink(self, writer, max_events): 0 is interpreted as infinite.
SinkSpawn(max) == IF max > 0 THEN max ELSE UintMax

\* Mutant of DropExcess: the batch is not resized.
DropExcessNone(n, remaining) == n

\* Drop excess elements: xs.resize(remaining) if xs.size() > remaining.
DropExcess(n, remaining) == IF n > remaining THEN remaining ELSE n

\* st.writer.flush()
Flush(w) == [w EXCEPT !.unflushed = 0]

\* st.writer.write(xs) of n events.
Write(w, n) == [passed |-> w.passed + n, unflushed |-> w.unflushed + n]

NewWriter == [passed |-> 0, unflushed |-> 0]

InitSHist ==
  [spawn |-> 0,          \* the max_events argument of the spawn
   spawnMax |-> 0,       \* st.max_events when the behavior was returned
   reason |-> "none",    \* why the sink quit: "cap", "error" or "exit"
   lastBatch |-> <<>>,   \* the last batch: its size and the events written
   lastLimit |-> <<>>]   \* the last (limit_atom, max) handled

SinkInit ==
  \E max \in 0..MaxLimit :
    /\ processed = 0
    /\ max_events = SinkSpawn(max)
    /\ sstatus = "running"
    /\ writer = NewWriter
    /\ shist = [InitSHist EXCEPT !.spawn = max, !.spawnMax = SinkSpawn(max)]

SinkParked ==
  /\ processed = 0
  /\ max_events = UintMax
  /\ sstatus = "exited"
  /\ writer = NewWriter
  /\ shist = InitSHist

\* ---------------------------------------------------------------- reader
\* A line of the log: one that parses to an event, an empty one, one on
\* which parse throws a parse_exception.
LineKinds == {"event", "empty", "bad"}

RECURSIVE LinesUpTo(_)
LinesUpTo(n) ==
  IF n = 0 THEN {<<>>}
  ELSE LinesUpTo(n - 1)
       \cup {Append(l, k) : l \in {m \in LinesUpTo(n - 1) : Len(m) = n - 1},
                            k \in LineKinds}

\* file_(filename): a stream on the lines of the file, or one with the fail
\* bit set if the file cannot be opened.
OpenedFiles ==
  {[lines |-> l, fail |-> FALSE] : l \in LinesUpTo(MaxLines)}
  \cup {[lines |-> <<>>, fail |-> TRUE]}

\* Parse errors after which extract gives up on the batch.
MaxParseErrors == 20

\* std::getline(file_, line): fails on a stream in the fail state and at
\* the end of the file, which sets the fail bit.
GetLine(f) ==
  IF f.fail \/ f.lines = <<>>
    THEN [ok |-> FALSE, line |-> "", file |-> [f EXCEPT !.fail = TRUE]]
    ELSE [ok |-> TRUE, line |-> Head(f.lines),
          file |-> [f EXCEPT !.lines = Tail(@)]]

\* line_reader::extract(batch_size), from the loop's state: the events so
\* far and the parse errors so far.
RECURSIVE Extract(_, _, _, _)
Extract(f, batch_size, events, errors) ==
  LET g == GetLine(f) IN
  IF ~g.ok THEN [file |-> g.file, events |-> events]
  ELSE IF g.line = "empty"
    THEN Extract(g.file, batch_size, events, errors)
  ELSE IF g.line = "bad"
    THEN IF errors + 1 >= MaxParseErrors
           THEN [file |-> g.file, events |-> events]
           ELSE Extract(g.file, batch_size, events, errors + 1)
  ELSE IF Len(events) + 1 = batch_size
    THEN [file |-> g.file, events |-> Append(events, g.line)]
    ELSE Extract(g.file, batch_size, Append(events, g.line), errors)

InitRHist ==
  [n |-> 0,          \* extract requests handled
   last |-> <<>>]    \* the last extract request and what it did

ReaderInit ==
  /\ file_ \in OpenedFiles
  /\ total_events_ = 0
  /\ rstatus = "running"
  /\ upstream = <<>>
  /\ replies = <<>>
  /\ rhist = InitRHist

ReaderParked ==
  /\ file_ = [lines |-> <<>>, fail |-> TRUE]
  /\ total_events_ = 0
  /\ rstatus = "exited"
  /\ upstream = <<>>
  /\ replies = <<>>
  /\ rhist = InitRHist

\* ---------------------------------------------------------------- zig-zag
\* The values of the signed type T and of std::make_unsigned_t<T>.
SignedInts == (0 - 2^(ZigzagBits - 1))..(2^(ZigzagBits - 1) - 1)
UnsignedInts == 0..(2^ZigzagBits - 1)

\* Conversions between the two types: the value modulo 2^bits.
ToUnsigned(x) == x % 2^ZigzagBits
ToSigned(u) ==
  IF ToUnsigned(u) >= 2^(ZigzagBits - 1)
    THEN ToUnsigned(u) - 2^ZigzagBits
    ELSE ToUnsigned(u)

\* a ^ b on the n low bits of two unsigned values.
RECURSIVE Xor(_, _, _)
Xor(a, b, n) ==
  IF n = 0 THEN 0
  ELSE ((a + b) % 2) + 2 * Xor(a \div 2, b \div 2, n - 1)

\* Mutant of ShiftRightSigned: the shift fills with zeros.
ShiftRightLogical(x, k) == ToUnsigned(x) \div 2^k

\* x >> k of a signed x: the sign bit is shifted in.
ShiftRightSigned(x, k) == x \div 2^k

\* std::numeric_limits<T>::digits of the signed type.
Width == ZigzagBits - 1

\* encode(T x): (make_unsigned_t<T>(x) << 1) ^ (x >> width), as unsigned.
Encode(x) ==
  Xor(ToUnsigned(2 * ToUnsigned(x)),
      ToUnsigned(ShiftRightSigned(x, Width)), ZigzagBits)

\* decode(T x): (x >> 1) ^ -static_cast<make_signed_t<T>>(x & 1), as signed.
Decode(u) ==
  ToSigned(Xor(u \div 2, ToUnsigned(0 - (u % 2)), ZigzagBits))

ZigzagInit ==
  /\ zin \in [kind : {"signed"}, value : SignedInts]
             \cup [kind : {"unsigned"}, value : UnsignedInts]
  /\ zout = <<>>

ZigzagParked ==
  /\ zin = [kind |-> "signed", value |-> 0]
  /\ zout = <<>>

\* ---------------------------------------------------------------- Bloom filter
\* Unsigned integers of 32 bits are kept as their four bytes, the lowest
\* first, and those of 64 bits as two such words.
ToWord(k) ==
  <<k % 256, (k \div 256) % 256, (k \div 65536) % 256,
    (k \div 16777216) % 256>>

RECURSIVE FromBytes(_)
FromBytes(w) == IF w = <<>> THEN 0 ELSE Head(w) + 256 * FromBytes(Tail(w))

Zeros(n) == [i \in 1..n |-> 0]

\* a * m + c for the bytes a and the byte m: one byte more than a.
RECURSIVE MulByte(_, _, _)
MulByte(a, m, c) ==
  IF a = <<>> THEN <<c>>
  ELSE LET t == Head(a) * m + c
       IN <<t % 256>> \o MulByte(Tail(a), m, t \div 256)

\* a + b + c for two byte sequences of one length, modulo that length.
RECURSIVE AddBytes(_, _, _)
AddBytes(a, b, c) ==
  IF a = <<>> THEN <<>>
  ELSE LET t == Head(a) + Head(b) + c
       IN <<t % 256>> \o AddBytes(Tail(a), Tail(b), t \div 256)

\* The full product of a and b: Len(a) + Len(b) bytes.
RECURSIVE MulBytes(_, _)
MulBytes(a, b) ==
  IF b = <<>> THEN Zeros(Len(a))
  ELSE AddBytes(MulByte(a, Head(b), 0) \o Zeros(Len(b) - 1),
                <<0>> \o MulBytes(a, Tail(b)), 0)

\* The digests the hash function gives for the elements of the model:
\* the high and the low 32 bits.
HiWords == {ToWord(0), <<0, 0, 0, 128>>, <<255, 255, 255, 255>>}
LoWords == {ToWord(1), <<120, 86, 52, 18>>}
Digests == [hi : HiWords, lo : LoWords]

\* constexpr auto c = 24
BitsPerBlock == 24
\* block_type = std::array<uint32_t, 8>
Lanes == 8
\* The hash values of a lane are reduced from 32 bits to five bits.
LaneIndexBits == 5

\* num_blocks(bits): std::max(size_t{1}, bits / c)
NumBlocks(bits) ==
  IF bits \div BitsPerBlock > 1 THEN bits \div BitsPerBlock ELSE 1

\* The sizes filters are constructed with.
FilterSizes == {0} \cup {BitsPerBlock * k : k \in 2..MaxBlocks}

\* A block with no bit set; a block is the set of the bits set in each of
\* its lanes.
EmptyBlock == [i \in 1..Lanes |-> {}]

\* blocked_bloom_filter(size): the blocks are allocated (the allocation is
\* taken to succeed) and zeroed.
MakeFilter(size) ==
  [num_blocks_ |-> NumBlocks(size),
   blocks_ |-> [i \in 1..NumBlocks(size) |-> EmptyBlock]]

\* reduce(hash, n): (uint32_t)(((uint64_t)hash * n) >> 32)
Reduce(hash, n) == FromBytes(SubSeq(MulBytes(hash, n), 5, 8))

\* rotl64(n, 32): the two halves change places.
Rotl64(digest) == [hi |-> digest.lo, lo |-> digest.hi]

\* block_index(digest, num_blocks): reduce takes the low 32 bits of both.
BlockIndex(digest, num_blocks) ==
  Reduce(Rotl64(digest).lo, ToWord(num_blocks))

\* The eight odd constants of the multiply-shift hashing.
Rehash ==
  <<<<123, 19, 182, 71>>, <<145, 77, 151, 68>>, <<91, 173, 36, 136>>,
    <<157, 40, 183, 162>>, <<199, 149, 84, 112>>, <<75, 66, 241, 45>>,
    <<71, 73, 252, 158>>, <<49, 251, 107, 92>>>>

\* make_mask(const uint32_t digest): in every lane the bit whose index is
\* the five high bits of the low 32 bits of rehash * digest.
MakeMask(digest) ==
  [i \in 1..Lanes |->
     {MulBytes(Rehash[i], digest)[4] \div 2^(8 - LaneIndexBits)}]

\* block_index and make_mask of every digest of the model, computed once.
IndexOf == [d \in Digests |-> [n \in 1..MaxBlocks |-> BlockIndex(d, n)]]
MaskOf == [w \in LoWords |-> MakeMask(w)]

\* Mutant of BlockOr: the mask is stored without the bits of the block.
BlockStore(block, mask) == mask

\* _mm256_or_si256(*block, mask)
BlockOr(block, mask) == [i \in 1..Lanes |-> block[i] \cup mask[i]]

\* _mm256_testc_si256(*block, mask): 1 if no bit of mask is missing in block.
TestC(block, mask) == \A i \in 1..Lanes : mask[i] \subseteq block[i]

\* add(x), digest = hash{}(x)
BloomAdd(f, digest) ==
  LET idx == IndexOf[digest][f.num_blocks_]
  IN [f EXCEPT !.blocks_[idx + 1] = BlockOr(@, MaskOf[digest.lo])]

\* lookup(x), digest = hash{}(x)
BloomLookup(f, digest) ==
  LET idx == IndexOf[digest][f.num_blocks_]
  IN TestC(f.blocks_[idx + 1], MaskOf[digest.lo])

\* std::memcmp(a, b, n) of the blocks: 0 if they are the same bytes,
\* another value otherwise.
Memcmp(a, b) == IF a = b THEN 0 ELSE 1

\* operator==(x, y): the int that memcmp returns is converted to bool.
BloomEquals(x, y) ==
  /\ x.num_blocks_ = y.num_blocks_
  /\ Memcmp(x.blocks_, y.blocks_) # 0

FilterNames == {"x", "y"}

InitBHist ==
  [added |-> [f \in FilterNames |-> {}],  \* digests added to each filter
   same |-> FALSE,     \* both filters were built by the same adds
   nadds |-> 0,
   lastAdd |-> <<>>]   \* the last add: the filter before and after it

BloomInit ==
  /\ \E sx, sy \in FilterSizes :
       /\ filters = [f \in FilterNames |->
                       MakeFilter(IF f = "x" THEN sx ELSE sy)]
       /\ bfhist = [InitBHist EXCEPT !.same = (sx = sy)]
  /\ bfout = <<>>

BloomParked ==
  /\ filters = [f \in FilterNames |-> MakeFilter(0)]
  /\ bfout = <<>>
  /\ bfhist = InitBHist

ToolsParked == SinkParked /\ ReaderParked /\ ZigzagParked /\ BloomParked

RestParked == QueryParked /\ PartitionsParked /\ ToolsParked

Init == StoreInit /\ LookupParked /\ ActiveParked /\ RestParked

\* ---------------------------------------------------------------- clients
\* The queries the clients send.
StoreQueries == {CountQuery("exact", EmptyExpr), MakeErase(EmptyExpr)}

\* A client sends request (query, ids) to the store.
SendQuery ==
  /\ ~crashed
  /\ nreq < MaxReq
  /\ \E query \in StoreQueries, ids \in IdSets :
       LET r == nreq + 1 IN
       /\ nreq' = r
       /\ mailbox' = Deliver(mailbox, QueryMsg(query, ids, r, r))
       /\ responses' = IF status = "running" THEN responses
                       ELSE responses \o Respond(r, "request_receiver_down")
       /\ hist' = IF segment = <<>> THEN hist
                  ELSE [hist EXCEPT !.sentLoaded = @ \cup {r}]
  /\ UNCHANGED <<storeVars, fsVars, sink, crashed, nexit>>
  /\ UNCHANGED otherVars

\* A client sends request (atom::erase, ids) to the store.
SendErase ==
  /\ ~crashed
  /\ nreq < MaxReq
  /\ \E ids \in IdSets :
       LET r == nreq + 1 IN
       /\ nreq' = r
       /\ mailbox' = Deliver(mailbox, EraseMsg(ids, r, r))
       /\ responses' = IF status = "running" THEN responses
                       ELSE responses \o Respond(r, "request_receiver_down")
       /\ hist' = IF segment = <<>> THEN hist
                  ELSE [hist EXCEPT !.sentLoaded = @ \cup {r}]
  /\ UNCHANGED <<storeVars, fsVars, sink, crashed, nexit>>
  /\ UNCHANGED otherVars

\* Another actor (the partition, on shutdown) sends an exit message.
SendExit ==
  /\ ~crashed
  /\ nexit < MaxExit
  /\ status = "running"
  /\ nexit' = nexit + 1
  /\ mailbox' = Append(mailbox, Msg("exit"))
  /\ UNCHANGED <<storeVars, fsVars, responses, sink, crashed, nreq, hist>>
  /\ UNCHANGED otherVars

\* The process is killed: nothing runs any more, the files stay as they are.
Crash ==
  /\ ~crashed
  /\ crashed' = TRUE
  /\ UNCHANGED <<storeVars, fsVars, mailbox, responses, sink, nreq, nexit,
                 hist>>
  /\ UNCHANGED otherVars

\* ---------------------------------------------------------------- store
Handles(kind) ==
  /\ ~crashed
  /\ status = "running"
  /\ mailbox # <<>>
  /\ Head(mailbox).kind = kind

DeferredOrigs == {deferred_requests[i].orig : i \in 1..Len(deferred_requests)}

\* The exit handler: every deferred promise is given lookup_error.  The
\* handler replaces the default one and does not call quit().
HandleExit ==
  /\ Handles("exit")
  /\ LET fail(d) == Respond(d.rp.source, "lookup_error") IN
       responses' = responses \o FlatMap(fail, deferred_requests)
  /\ deferred_requests' = <<>>
  /\ mailbox' = Tail(mailbox)
  /\ hist' = [hist EXCEPT !.cancelled = @ \cup DeferredOrigs,
                          !.exitsHandled = @ + 1,
                          !.queueAfterExit = Len(deferred_requests')]
  /\ UNCHANGED <<status, segment, path, fsVars, sink, crashed, nreq, nexit>>
  /\ UNCHANGED otherVars

\* The response handler of the mmap request, success.
HandleMmapOk ==
  /\ Handles("mmap_ok")
  /\ LET m == Head(mailbox) IN
     IF m.chunk.kind # "complete"
       THEN \* segment::make fails: send_exit(self, unhandled_exception)
            /\ mailbox' = Append(Tail(mailbox), Msg("exit"))
            /\ hist' = [hist EXCEPT !.loadFailed = "parse",
                                    !.failedDeferred = DeferredOrigs]
            /\ UNCHANGED <<segment, deferred_requests>>
       ELSE \* rp.delegate(self, expr, ids) for every deferred request
            /\ segment' = <<m.chunk.ids>>
            /\ LET again(d) == QueryMsg(d.query, d.ids, d.rp.source, d.orig)
               IN mailbox' = Tail(mailbox) \o MapSeq(again, deferred_requests)
            /\ deferred_requests' = <<>>
            /\ hist' = hist
  /\ UNCHANGED <<status, path, fsVars, responses, sink, crashed, nreq, nexit>>
  /\ UNCHANGED otherVars

\* The mmap request fails: the request has no error handler, the actor's
\* default error handler quits the actor.
HandleMmapErr ==
  /\ Handles("mmap_err")
  /\ status' = "exited"
  /\ responses' = responses \o FlatMap(Bounce, Tail(mailbox))
  /\ mailbox' = <<>>
  /\ deferred_requests' = <<>>
  /\ hist' = [hist EXCEPT !.loadFailed = "mmap",
                          !.failedDeferred = DeferredOrigs]
  /\ UNCHANGED <<segment, path, fsVars, sink, crashed, nreq, nexit>>
  /\ UNCHANGED otherVars

\* handler (query, ids)
HandleQuery ==
  /\ Handles("query")
  /\ LET m == Head(mailbox) IN
     \/ \* segment not loaded: the request is stored with a fresh promise
        /\ segment = <<>>
        /\ deferred_requests' =
             Append(deferred_requests,
                    [query |-> m.query, ids |-> m.ids, rp |-> DefaultPromise,
                     orig |-> m.orig])
        /\ mailbox' = Tail(mailbox)
        /\ hist' = [hist EXCEPT !.wasDeferred =
                      Append(@, [orig |-> m.orig, kind |-> "query",
                                 cmd |-> m.cmd])]
        /\ UNCHANGED <<responses, sink, crashed>>
     \/ \* erase query: delegate(self, atom::erase, ids)
        /\ segment # <<>>
        /\ HoldsErase(m.query)
        /\ mailbox' = Append(Tail(mailbox), EraseMsg(m.ids, m.req, m.orig))
        /\ hist' = [hist EXCEPT !.delegated = @ \cup {m.orig}]
        /\ UNCHANGED <<deferred_requests, responses, sink, crashed>>
     \/ \* segment->lookup(ids) fails
        /\ segment # <<>>
        /\ ~HoldsErase(m.query)
        /\ LookupMayFail(SegmentSlices(segment[1]), m.ids)
        /\ mailbox' = Tail(mailbox)
        /\ responses' = responses \o Respond(m.req, "error")
        /\ hist' = [hist EXCEPT !.applied = Append(@, m.orig)]
        /\ UNCHANGED <<deferred_requests, sink, crashed>>
     \/ \* handle_lookup; the assertion of its erase arm aborts the process
        \* in builds that check assertions
        /\ segment # <<>>
        /\ ~HoldsErase(m.query)
        /\ LET r == HandleLookup(m.query, m.ids, Lookup(segment[1], m.ids)) IN
           \E asserting \in BOOLEAN :
             /\ r.result # "assert" => asserting
             /\ sink' = sink \o r.sent
             /\ crashed' = (r.result = "die" \/ (r.result = "assert" /\ asserting))
             /\ responses' = IF crashed' THEN responses
                             ELSE responses \o Respond(m.req,
                                    IF r.result = "error" THEN "error"
                                    ELSE "done")
        /\ mailbox' = Tail(mailbox)
        /\ hist' = [hist EXCEPT
                      !.lookups = @ \cup {[seg |-> segment[1],
                                            erased |-> hist.erasedDone]},
                      !.lookupCmds = @ \cup {m.query.cmd},
                      !.applied = Append(@, m.orig)]
        /\ UNCHANGED deferred_requests
  /\ UNCHANGED <<status, segment, path, fsVars, nreq, nexit>>
  /\ UNCHANGED otherVars

\* A write request of an earlier erase has not been answered yet.
WriteOutstanding ==
  hist.nerase > Cardinality(hist.swapped \cup hist.writeFailed)

\* handler (atom::erase, xs)
HandleErase ==
  /\ Handles("erase")
  /\ LET m == Head(mailbox) IN
     \/ \* segment not loaded: stored as an erase query
        /\ segment = <<>>
        /\ deferred_requests' =
             Append(deferred_requests,
                    [query |-> MakeErase(EmptyExpr), ids |-> m.ids,
                     rp |-> DefaultPromise,
                     orig |-> m.orig])
        /\ mailbox' = Tail(mailbox)
        /\ hist' = [hist EXCEPT !.wasDeferred =
                      Append(@, [orig |-> m.orig, kind |-> "erase",
                                 cmd |-> "erase"])]
        /\ UNCHANGED <<responses, path, fsq>>
     \/ \* segment::copy_without fails
        /\ segment # <<>>
        /\ mailbox' = Tail(mailbox)
        /\ responses' = responses \o Respond(m.req, "error")
        /\ hist' = [hist EXCEPT !.applied = Append(@, m.orig)]
        /\ UNCHANGED <<deferred_requests, path, fsq>>
     \/ \* the write of the new segment is requested, done is returned
        /\ segment # <<>>
        /\ LET new_segment == CopyWithout(segment[1], m.ids)
               old_path == path
               new_path == ReplaceExtension(path)
           IN /\ path' = new_path
              /\ fsq' = Append(fsq, [Msg("write") EXCEPT
                                       !.seg = new_segment,
                                       !.old_path = old_path,
                                       !.new_path = new_path,
                                       !.ids = m.ids,
                                       !.orig = m.orig])
        /\ mailbox' = Tail(mailbox)
        /\ responses' = responses \o Respond(m.req, "done")
        /\ hist' = [hist EXCEPT
                      !.erasedDone = IF m.req = NoSource THEN @
                                     ELSE @ \cup m.ids,
                      !.doneErases = IF m.req = NoSource THEN @
                                     ELSE @ \cup {m.orig},
                      !.nerase = @ + 1,
                      !.applied = Append(@, m.orig),
                      !.overlap = IF WriteOutstanding
                                    THEN @ \cup {m.orig} ELSE @]
        /\ UNCHANGED deferred_requests
  /\ UNCHANGED <<status, segment, fsWriting, files, sink, crashed, nreq,
                 nexit>>
  /\ UNCHANGED otherVars

\* std::filesystem::rename(from, to): atomic; the file keeps its contents,
\* also when it is being written.
Rename(from, to) ==
  IF from = to THEN files
  ELSE [files EXCEPT ![to] = files[from], ![from] = Absent]

\* The response handler of the write request, success.
HandleWriteOk ==
  /\ Handles("write_ok")
  /\ LET m == Head(mailbox) IN
     \E ec \in BOOLEAN :
       /\ files[m.new_path].kind = "absent" => ec
       /\ files' = IF ec THEN files ELSE Rename(m.new_path, m.old_path)
       /\ fsWriting' =
            IF ~ec /\ fsWriting # <<>> /\ fsWriting[1].at = m.new_path
              THEN <<[fsWriting[1] EXCEPT !.at = m.old_path]>>
              ELSE fsWriting
       /\ segment' = <<m.seg>>
       /\ hist' = [hist EXCEPT
                     !.swapped = @ \cup {m.orig},
                     !.renameFailed = IF ec THEN @ \cup {m.orig} ELSE @,
                     !.committed = IF ec THEN @ ELSE @ \cup {m.orig},
                     !.committedIds = IF ec THEN @ ELSE @ \cup m.ids]
  /\ mailbox' = Tail(mailbox)
  /\ UNCHANGED <<status, deferred_requests, path, fsq, responses, sink,
                 crashed, nreq, nexit>>
  /\ UNCHANGED otherVars

\* The response handler of the write request, error: logs only.
HandleWriteErr ==
  /\ Handles("write_err")
  /\ mailbox' = Tail(mailbox)
  /\ hist' = [hist EXCEPT !.writeFailed = @ \cup {Head(mailbox).orig}]
  /\ UNCHANGED <<storeVars, fsVars, responses, sink, crashed, nreq, nexit>>
  /\ UNCHANGED otherVars

\* ---------------------------------------------------------------- filesystem
\* The filesystem actor answers (atom::mmap, path).
FsMmap ==
  /\ ~crashed
  /\ fsWriting = <<>>
  /\ fsq # <<>>
  /\ Head(fsq).kind = "mmap"
  /\ LET p == Head(fsq).new_path IN
     \E ok \in BOOLEAN :
       /\ files[p].kind = "absent" => ~ok
       /\ mailbox' = Deliver(mailbox,
                       IF ok THEN [Msg("mmap_ok") EXCEPT !.chunk = files[p]]
                       ELSE Msg("mmap_err"))
  /\ fsq' = Tail(fsq)
  /\ UNCHANGED <<storeVars, fsWriting, files, responses, sink, crashed, nreq,
                 nexit, hist>>
  /\ UNCHANGED otherVars

\* The filesystem actor starts on (atom::write, path, chunk): the file is
\* opened and truncated.
FsWriteBegin ==
  /\ ~crashed
  /\ fsWriting = <<>>
  /\ fsq # <<>>
  /\ Head(fsq).kind = "write"
  /\ fsWriting' = <<[req |-> Head(fsq), at |-> Head(fsq).new_path]>>
  /\ files' = [files EXCEPT ![Head(fsq).new_path] = Partial]
  /\ fsq' = Tail(fsq)
  /\ UNCHANGED <<storeVars, mailbox, responses, sink, crashed, nreq, nexit,
                 hist>>
  /\ UNCHANGED otherVars

\* The write completes: all bytes are in the file, atom::ok is returned.
FsWriteEnd ==
  /\ ~crashed
  /\ fsWriting # <<>>
  /\ LET w == fsWriting[1] IN
       /\ files' = [files EXCEPT ![w.at] = Complete(w.req.seg)]
       /\ mailbox' = Deliver(mailbox, [w.req EXCEPT !.kind = "write_ok"])
  /\ fsWriting' = <<>>
  /\ UNCHANGED <<storeVars, fsq, responses, sink, crashed, nreq, nexit, hist>>
  /\ UNCHANGED otherVars

\* The write fails part way: an error is returned.
FsWriteFail ==
  /\ ~crashed
  /\ fsWriting # <<>>
  /\ mailbox' = Deliver(mailbox, [fsWriting[1].req EXCEPT !.kind = "write_err"])
  /\ fsWriting' = <<>>
  /\ UNCHANGED <<storeVars, fsq, files, responses, sink, crashed, nreq, nexit,
                 hist>>
  /\ UNCHANGED otherVars

\* ---------------------------------------------------------------- spec
Next ==
  \/ SendQuery
  \/ SendErase
  \/ SendExit
  \/ Crash
  \/ HandleExit
  \/ HandleMmapOk
  \/ HandleMmapErr
  \/ HandleQuery
  \/ HandleErase
  \/ HandleWriteOk
  \/ HandleWriteErr
  \/ FsMmap
  \/ FsWriteBegin
  \/ FsWriteEnd
  \/ FsWriteFail

Spec == Init /\ [][Next]_vars

\* ---------------------------------------------------------------- lookup
\* A loaded passive store is given one request (query, ids): the handler
\* (query, ids) of the store from the erase test on, with handle_lookup.

Rows == 1..MaxRow

\* The slices without the record h.
WithoutRow(slices, h) ==
  [i \in 1..Len(slices) |-> Slice(slices[i].layout, slices[i].ids \ {h})]

\* Segments: no slice, one slice or two slices over Rows, of any layouts, as
\* built or with one record erased.
LkBuilt ==
  {<<>>} \cup {<<Slice(l, Rows)>> : l \in Layouts}
  \cup {<<Slice(l1, 1..k), Slice(l2, (k + 1)..MaxRow)>> :
          l1 \in Layouts, l2 \in Layouts, k \in 1..(MaxRow - 1)}
LkSegments == {WithoutRow(sl, h) : sl \in LkBuilt, h \in 0..MaxRow}

LkQueries ==
  {CountQuery(m, e) : m \in {"exact", "estimate"}, e \in Exprs}
  \cup {ExtractQuery(pol, e) : pol \in {"preserve_ids", "drop_ids"}, e \in Exprs}
  \cup {MakeErase(EmptyExpr)}

\* The passive store of the other specifications is not running and its
\* clients have nothing to send.
PassiveParked ==
  /\ status = "exited"
  /\ segment = <<>>
  /\ deferred_requests = <<>>
  /\ path = StorePath
  /\ mailbox = <<>>
  /\ responses = <<>>
  /\ sink = <<>>
  /\ fsq = <<>>
  /\ fsWriting = <<>>
  /\ files = [p \in Paths |-> Absent]
  /\ crashed = FALSE
  /\ nreq = MaxReq
  /\ nexit = MaxExit
  /\ hist = InitHist

InitLookup ==
  /\ PassiveParked
  /\ ActiveParked
  /\ RestParked
  /\ lkIn \in [segment : LkSegments, query : LkQueries, ids : SUBSET Rows]
  /\ lkOut = <<>>

LkResult(lookup, slices, r) ==
  <<[lookup |-> lookup, slices |-> slices, result |-> r.result,
     sent |-> r.sent]>>

\* An erase query is delegated to the erase handler.
LkDelegateErase ==
  /\ lkOut = <<>>
  /\ HoldsErase(lkIn.query)
  /\ lkOut' = LkResult("none", <<>>, [result |-> "delegated", sent |-> <<>>])
  /\ UNCHANGED <<passiveVars, activeVars, restVars, lkIn>>

\* segment->lookup(ids) fails: the request is answered with the error.
LkLookupFails ==
  /\ lkOut = <<>>
  /\ ~HoldsErase(lkIn.query)
  /\ LookupMayFail(lkIn.segment, lkIn.ids)
  /\ lkOut' = LkResult("failed", <<>>, [result |-> "error", sent |-> <<>>])
  /\ UNCHANGED <<passiveVars, activeVars, restVars, lkIn>>

\* handle_lookup on the slices that segment->lookup(ids) returns.
LkHandleLookup ==
  /\ lkOut = <<>>
  /\ ~HoldsErase(lkIn.query)
  /\ LET slices == LookupFrom(lkIn.segment, lkIn.ids, 1)
     IN lkOut' = LkResult("ok", slices,
                          HandleLookup(lkIn.query, lkIn.ids, slices))
  /\ UNCHANGED <<passiveVars, activeVars, restVars, lkIn>>

NextLookup ==
  \/ LkDelegateErase
  \/ LkLookupFails
  \/ LkHandleLookup

SpecLookup == InitLookup /\ [][NextLookup]_vars

\* ---------------------------------------------------------------- active
\* The active store, its clients, its stream source and the filesystem.

AMsg(kind) ==
  [kind |-> kind, query |-> MakeErase(EmptyExpr), ids |-> {}, req |-> NoSource,
   batch |-> <<>>]

\* A request sent to the active store: enqueued while the store runs,
\* bounced once it has terminated.
ASend(m) ==
  /\ amailbox' = IF astatus = "running" THEN Append(amailbox, m) ELSE amailbox
  /\ aresponses' = IF astatus = "running" THEN aresponses
                   ELSE aresponses \o Respond(m.req, "request_receiver_down")

\* A client sends request (query, ids) to the active store.
ASendQuery ==
  /\ ~crashed
  /\ areq < MaxReq
  /\ areq' = areq + 1
  /\ \E query \in StoreQueries, ids \in IdSets :
       ASend([AMsg("query") EXCEPT !.query = query, !.ids = ids,
                                   !.req = areq + 1])
  /\ UNCHANGED <<builder, astatus, asink, afsq, stream, aexit, arow, ahist>>
  /\ UNCHANGED <<passiveRest, files, crashed, lkVars, restVars>>

\* A client sends request (atom::erase, ids) to the active store.
ASendErase ==
  /\ ~crashed
  /\ areq < MaxReq
  /\ areq' = areq + 1
  /\ \E ids \in IdSets :
       ASend([AMsg("erase") EXCEPT !.ids = ids, !.req = areq + 1])
  /\ UNCHANGED <<builder, astatus, asink, afsq, stream, aexit, arow, ahist>>
  /\ UNCHANGED <<passiveRest, files, crashed, lkVars, restVars>>

\* A client sends request (atom::status, verbosity) to the active store.
ASendStatus ==
  /\ ~crashed
  /\ areq < MaxReq
  /\ areq' = areq + 1
  /\ ASend([AMsg("status") EXCEPT !.req = areq + 1])
  /\ UNCHANGED <<builder, astatus, asink, afsq, stream, aexit, arow, ahist>>
  /\ UNCHANGED <<passiveRest, files, crashed, lkVars, restVars>>

\* Another actor (the partition, on shutdown) sends an exit message.
ASendExit ==
  /\ ~crashed
  /\ aexit < MaxExit
  /\ astatus = "running"
  /\ aexit' = aexit + 1
  /\ amailbox' = Append(amailbox, AMsg("exit"))
  /\ UNCHANGED <<builder, astatus, aresponses, asink, afsq, stream, areq, arow,
                 ahist>>
  /\ UNCHANGED <<passiveRest, files, crashed, lkVars, restVars>>

\* The source (the partition) opens its stream of slices to the store.
OpenStream ==
  /\ ~crashed
  /\ astatus = "running"
  /\ stream = "none"
  /\ stream' = "pending"
  /\ amailbox' = Append(amailbox, AMsg("stream"))
  /\ UNCHANGED <<builder, astatus, aresponses, asink, afsq, areq, aexit, arow,
                 ahist>>
  /\ UNCHANGED <<passiveRest, files, crashed, lkVars, restVars>>

\* The batches of n slices whose records follow record first.
RECURSIVE Batches(_, _)
Batches(n, first) ==
  IF n = 0 THEN {<<>>}
  ELSE UNION {{<<Slice(l, (first + 1)..(first + k))>> \o rest :
                 l \in IngestLayouts, rest \in Batches(n - 1, first + k)} :
              k \in 1..(IF MaxIngest - first < MaxSliceRows THEN MaxIngest - first
                        ELSE MaxSliceRows)}

\* The source sends a batch of slices down the stream.  Batches and requests
\* are handled in the order of one queue: the senders differ, so every
\* interleaving of them occurs.
SendBatch ==
  /\ ~crashed
  /\ astatus = "running"
  /\ stream = "open"
  /\ \E n \in 1..MaxBatch : \E batch \in Batches(n, arow) :
       /\ amailbox' = Append(amailbox, [AMsg("batch") EXCEPT !.batch = batch])
       /\ arow' = arow + Cardinality(IdsOf(batch))
  /\ UNCHANGED <<builder, astatus, aresponses, asink, afsq, stream, areq,
                 aexit, ahist>>
  /\ UNCHANGED <<passiveRest, files, crashed, lkVars, restVars>>

AHandles(kind) ==
  /\ ~crashed
  /\ astatus = "running"
  /\ amailbox # <<>>
  /\ Head(amailbox).kind = kind

\* The exit handler: finish(), the write request to the filesystem, quit().
\* The actor terminates when the handler returns: the responses to its
\* write request find no handler, the requests of its mailbox are bounced
\* and its stream is closed.
AHandleExit ==
  /\ AHandles("exit")
  /\ LET f == BuilderFinish(builder)
         w == [path |-> StorePath, seg |-> f.seg]
     IN /\ builder' = f.builder
        /\ afsq' = Append(afsq, w)
        /\ ahist' = [ahist EXCEPT !.writes = Append(@, w)]
  /\ astatus' = "exited"
  /\ aresponses' = aresponses \o FlatMap(Bounce, Tail(amailbox))
  /\ amailbox' = <<>>
  /\ stream' = IF stream = "none" THEN "none" ELSE "closed"
  /\ UNCHANGED <<asink, areq, aexit, arow>>
  /\ UNCHANGED <<passiveRest, files, crashed, lkVars, restVars>>

\* handler (query, ids)
AHandleQuery ==
  /\ AHandles("query")
  /\ LET m == Head(amailbox) IN
     \/ \* builder->lookup(ids) fails
        /\ LookupMayFail(builder.slices, m.ids)
        /\ amailbox' = Tail(amailbox)
        /\ aresponses' = aresponses \o Respond(m.req, "error")
        /\ UNCHANGED <<asink, crashed, ahist>>
     \/ \* erase query: delegate(self, atom::erase, ids)
        /\ HoldsErase(m.query)
        /\ amailbox' = Append(Tail(amailbox),
                              [AMsg("erase") EXCEPT !.ids = m.ids,
                                                    !.req = m.req])
        /\ ahist' = [ahist EXCEPT !.delegated = @ + 1]
        /\ UNCHANGED <<aresponses, asink, crashed>>
     \/ \* handle_lookup; the assertion of its erase arm aborts the process
        \* in builds that check assertions
        /\ ~HoldsErase(m.query)
        /\ LET r == HandleLookup(m.query, m.ids, BuilderLookup(builder, m.ids))
           IN \E asserting \in BOOLEAN :
                /\ r.result # "assert" => asserting
                /\ asink' = asink \o r.sent
                /\ crashed' = (r.result = "die"
                               \/ (r.result = "assert" /\ asserting))
                /\ aresponses' = IF crashed' THEN aresponses
                                 ELSE aresponses \o Respond(m.req,
                                        IF r.result = "error" THEN "error"
                                        ELSE "done")
        /\ amailbox' = Tail(amailbox)
        /\ ahist' = [ahist EXCEPT !.lookupCmds = @ \cup {m.query.cmd}]
  /\ UNCHANGED <<builder, astatus, afsq, stream, areq, aexit, arow>>
  /\ UNCHANGED <<passiveRest, files, lkVars, restVars>>

\* handler (atom::erase, ids)
AHandleErase ==
  /\ AHandles("erase")
  /\ LET m == Head(amailbox)
         f == BuilderFinish(builder)
     IN \/ \* seg.erase(ids) fails: the handler returns the error
           /\ builder' = f.builder
           /\ aresponses' = aresponses \o Respond(m.req, "error")
           /\ ahist' = [ahist EXCEPT !.failedErases = @ + 1]
        \/ \* reset(id) and replay of the remaining slices
           /\ builder' = EraseReplay(f.builder, f.seg, SegmentErase(f.seg, m.ids))
           /\ aresponses' = aresponses \o Respond(m.req, "done")
           /\ ahist' = [ahist EXCEPT
                          !.added = @ \ m.ids,
                          !.lastErase = <<[before |-> builder, ids |-> m.ids,
                                           after |-> builder']>>]
  /\ amailbox' = Tail(amailbox)
  /\ UNCHANGED <<astatus, asink, afsq, stream, areq, aexit, arow>>
  /\ UNCHANGED <<passiveRest, files, crashed, lkVars, restVars>>

\* handler (caf::stream<table_slice>): the sink of the stream is made.
AHandleStream ==
  /\ AHandles("stream")
  /\ stream' = "open"
  /\ amailbox' = Tail(amailbox)
  /\ UNCHANGED <<builder, astatus, aresponses, asink, afsq, areq, aexit, arow,
                 ahist>>
  /\ UNCHANGED <<passiveRest, files, crashed, lkVars, restVars>>

\* The batch callback of the stream's sink.
AHandleBatch ==
  /\ AHandles("batch")
  /\ LET m == Head(amailbox)
         a == AddBatch(builder, m.batch)
     IN /\ builder' = a.builder
        /\ ahist' = [ahist EXCEPT
                       !.added = @ \cup a.added,
                       !.failedAdds = @ + Cardinality(IdsOf(m.batch) \ a.added),
                       !.lastBatch = <<[before |-> builder, batch |-> m.batch,
                                        after |-> a.builder,
                                        stream |-> stream]>>]
  /\ amailbox' = Tail(amailbox)
  /\ UNCHANGED <<astatus, aresponses, asink, afsq, stream, areq, aexit, arow>>
  /\ UNCHANGED <<passiveRest, files, crashed, lkVars, restVars>>

\* handler (atom::status, verbosity): the empty dictionary.
AHandleStatus ==
  /\ AHandles("status")
  /\ aresponses' = aresponses \o Respond(Head(amailbox).req, "status")
  /\ amailbox' = Tail(amailbox)
  /\ UNCHANGED <<builder, astatus, asink, afsq, stream, areq, aexit, arow,
                 ahist>>
  /\ UNCHANGED <<passiveRest, files, crashed, lkVars, restVars>>

\* The filesystem actor handles a write request of the active store and
\* answers it with ok or with an error.
AFsWrite ==
  /\ ~crashed
  /\ afsq # <<>>
  /\ LET w == Head(afsq) IN
     \E ok \in BOOLEAN :
       files' = [files EXCEPT
                   ![w.path] = IF ok THEN Complete(IdsOf(w.seg.slices))
                               ELSE Partial]
  /\ afsq' = Tail(afsq)
  /\ ahist' = [ahist EXCEPT !.acks = @ + 1]
  /\ UNCHANGED <<builder, astatus, amailbox, aresponses, asink, stream, areq,
                 aexit, arow>>
  /\ UNCHANGED <<passiveRest, crashed, lkVars, restVars>>

NextActive ==
  \/ ASendQuery
  \/ ASendErase
  \/ ASendStatus
  \/ ASendExit
  \/ OpenStream
  \/ SendBatch
  \/ AHandleExit
  \/ AHandleQuery
  \/ AHandleErase
  \/ AHandleStream
  \/ AHandleBatch
  \/ AHandleStatus
  \/ AFsWrite

InitActive == PassiveParked /\ LookupParked /\ ActiveInit /\ RestParked

SpecActive == InitActive /\ [][NextActive]_vars

\* Either store, alone.
InitStores ==
  \/ StoreInit /\ LookupParked /\ ActiveParked /\ RestParked
  \/ InitActive

NextStores ==
  \/ SendQuery
  \/ SendErase
  \/ SendExit
  \/ Crash
  \/ HandleExit
  \/ HandleMmapOk
  \/ HandleMmapErr
  \/ HandleQuery
  \/ HandleErase
  \/ HandleWriteOk
  \/ HandleWriteErr
  \/ FsMmap
  \/ FsWriteBegin
  \/ FsWriteEnd
  \/ FsWriteFail
  \/ ASendQuery
  \/ ASendErase
  \/ ASendStatus
  \/ ASendExit
  \/ OpenStream
  \/ SendBatch
  \/ AHandleExit
  \/ AHandleQuery
  \/ AHandleErase
  \/ AHandleStream
  \/ AHandleBatch
  \/ AHandleStatus
  \/ AFsWrite

SpecStores == InitStores /\ [][NextStores]_vars

\* ---------------------------------------------------------------- dispatch
\* What the dispatch of queries leaves alone: the stores and the partitions.
storesVars == <<passiveVars, lkVars, activeVars, partVars, toolVars>>

\* A supervisor runs for the first time: it registers with its master.
SpawnSupervisor(sv) ==
  /\ sv \notin spawned
  /\ spawned' = spawned \cup {sv}
  /\ idxbox' = idxbox \o SpawnRegistration(sv)
  /\ qhist' = [qhist EXCEPT !.regs[sv] = @ + Len(SpawnRegistration(sv))]
  /\ UNCHANGED <<idle_workers, backlog, svbox, svjob, pbox, cin, nquery,
                 nasked, nfail>>
  /\ UNCHANGED storesVars

\* A client sends a query to the index; the candidates of the query are
\* the partitions of its query map.
ClientQuery ==
  /\ nquery < MaxQueries
  /\ \E prio \in Priorities, qm \in QueryMaps :
       /\ nasked + Cardinality(qm) <= MaxFanout
       /\ idxbox' = Append(idxbox, IndexQueryMsg(nquery + 1, prio, qm))
       /\ nasked' = nasked + Cardinality(qm)
  /\ nquery' = nquery + 1
  /\ UNCHANGED <<idle_workers, backlog, spawned, svbox, svjob, pbox, cin,
                 nfail, qhist>>
  /\ UNCHANGED storesVars

\* The index hands a job to the next idle supervisor.
Dispatched(job, idle, boxes) ==
  [boxes EXCEPT ![NextWorker(idle)] = Append(@, SuperviseMsg(job.q, job.qm))]
DispatchNote(h, job, idle, fromBacklog) ==
  [h EXCEPT !.dispatches =
     Append(@, [q |-> job.q, sv |-> NextWorker(idle),
                finishedBefore |-> Cardinality(h.finishedQ),
                svFinished |-> h.finished[NextWorker(idle)],
                fromBacklog |-> fromBacklog])]

\* The index handles a query: a batch is scheduled on an idle supervisor,
\* or the query waits in the backlog.
IndexQuery ==
  /\ idxbox # <<>>
  /\ Head(idxbox).type = "query"
  /\ LET m == Head(idxbox)
         job == [q |-> m.q, prio |-> m.prio, qm |-> m.qm]
     IN  /\ idxbox' = Tail(idxbox)
         /\ IF WorkerAvailable(idle_workers)
              THEN /\ svbox' = Dispatched(job, idle_workers, svbox)
                   /\ idle_workers' = RemoveWorker(idle_workers)
                   /\ backlog' = backlog
                   /\ qhist' =
                        [DispatchNote(qhist, job, idle_workers, FALSE) EXCEPT
                           !.noIdle = IF idle_workers = <<>>
                                        THEN @ \cup {job.q} ELSE @]
              ELSE /\ backlog' = Emplace(backlog, job)
                   /\ qhist' =
                        [qhist EXCEPT
                           !.arrivals[job.prio] = Append(@, job.q),
                           !.noIdle = IF idle_workers = <<>>
                                        THEN @ \cup {job.q} ELSE @]
                   /\ UNCHANGED <<svbox, idle_workers>>
  /\ UNCHANGED <<spawned, svjob, pbox, cin, nquery, nasked, nfail>>
  /\ UNCHANGED storesVars

\* The index handles (worker, sv): the supervisor is idle, and the next job
\* of the backlog, if there is one, is scheduled.
IndexWorker ==
  /\ idxbox # <<>>
  /\ Head(idxbox).type = "worker"
  /\ LET m == Head(idxbox)
         idle == InsertWorker(idle_workers, m.sv)
         next == TakeNext(backlog)
     IN  /\ idxbox' = Tail(idxbox)
         /\ IF next.job # <<>> /\ WorkerAvailable(idle)
              THEN LET job == next.job[1]
                   IN  /\ svbox' = Dispatched(job, idle, svbox)
                       /\ idle_workers' = RemoveWorker(idle)
                       /\ backlog' = next.rest
                       /\ qhist' =
                            [DispatchNote(qhist, job, idle, TRUE) EXCEPT
                               !.taken[job.prio] = Append(@, job.q),
                               !.lowOverNormal =
                                 @ \/ (job.prio = "low"
                                       /\ backlog.normal # <<>>)]
              ELSE /\ idle_workers' = idle
                   /\ UNCHANGED <<svbox, backlog, qhist>>
  /\ UNCHANGED <<spawned, svjob, pbox, cin, nquery, nasked, nfail>>
  /\ UNCHANGED storesVars

\* supervise: the supervisor sends the query to every partition of the
\* query map.
SvSupervise(sv) ==
  /\ svbox[sv] # <<>>
  /\ Head(svbox[sv]).type = "supervise"
  /\ LET m == Head(svbox[sv])
     IN  /\ svbox' = [svbox EXCEPT ![sv] = Tail(@)]
         /\ svjob' = [svjob EXCEPT ![sv] = @ \cup {[q |-> m.q, open |-> m.qm]}]
         /\ pbox' = [p \in Partitions |->
                       IF p \in m.qm
                         THEN Append(pbox[p], PartitionQueryMsg(m.q, sv))
                         ELSE pbox[p]]
         /\ qhist' = [qhist EXCEPT !.supervised[sv] = @ + 1,
                                   !.qm[m.q] = m.qm]
  /\ UNCHANGED <<idxbox, idle_workers, backlog, spawned, cin, nquery, nasked, nfail>>
  /\ UNCHANGED storesVars

\* dummy_partition: the count goes to the sink, done to the supervisor.
PartitionQuery(p) ==
  /\ pbox[p] # <<>>
  /\ LET m == Head(pbox[p])
     IN  /\ pbox' = [pbox EXCEPT ![p] = Tail(@)]
         /\ cin' = [cin EXCEPT ![m.q] = Append(@, SinkCount(PartitionCount(p)))]
         /\ svbox' = [svbox EXCEPT ![m.sv] = Append(@, DoneResponse(m.q, p))]
  /\ UNCHANGED <<idxbox, idle_workers, backlog, spawned, svjob, nquery,
                 nasked, nfail, qhist>>
  /\ UNCHANGED storesVars

\* A partition fails: the supervisor's request ends with an error.
PartitionFails(p) ==
  /\ nfail < MaxFail
  /\ pbox[p] # <<>>
  /\ LET m == Head(pbox[p])
     IN  /\ pbox' = [pbox EXCEPT ![p] = Tail(@)]
         /\ svbox' = [svbox EXCEPT ![m.sv] = Append(@, ErrorResponse(m.q, p))]
         /\ qhist' = [qhist EXCEPT !.failed[m.q] = @ \cup {p}]
  /\ nfail' = nfail + 1
  /\ UNCHANGED <<idxbox, idle_workers, backlog, spawned, svjob, cin, nquery,
                 nasked>>
  /\ UNCHANGED storesVars

\* What the supervisor sends to the sink when all partitions have
\* signalled: done; after an error was surfaced, done or nothing.
Completion(received) ==
  IF \E i \in 1..Len(received) : received[i] = SinkError
    THEN {<<>>, <<SinkDone>>}
    ELSE {<<SinkDone>>}

\* The supervisor has the response of partition m.p to query m.q; open is
\* what is left to wait for, received what the sink has received.  When all
\* partitions have signalled, done goes to the sink and the supervisor
\* registers as idle again.
SvSignal(sv, m, open, received) ==
  /\ svbox' = [svbox EXCEPT ![sv] = Tail(@)]
  /\ IF AllSignalled(open)
       THEN /\ \E d \in Completion(received) :
                 cin' = [cin EXCEPT ![m.q] = received \o d]
            /\ idxbox' = Append(idxbox, WorkerMsg(sv))
            /\ svjob' = [svjob EXCEPT ![sv] = {j \in @ : j.q # m.q}]
            /\ qhist' = [qhist EXCEPT !.signalled[m.q] = @ \cup {m.p},
                                      !.finished[sv] = @ + 1,
                                      !.regs[sv] = @ + 1,
                                      !.finishedQ = @ \cup {m.q}]
       ELSE /\ cin' = [cin EXCEPT ![m.q] = received]
            /\ svjob' = [svjob EXCEPT ![sv] =
                           {j \in @ : j.q # m.q}
                             \cup {[q |-> m.q, open |-> open]}]
            /\ qhist' = [qhist EXCEPT !.signalled[m.q] = @ \cup {m.p}]
            /\ UNCHANGED idxbox
  /\ UNCHANGED <<idle_workers, backlog, spawned, pbox, nquery, nasked, nfail>>
  /\ UNCHANGED storesVars

\* The response to a request the supervisor no longer waits for.
SvDrop(sv) ==
  /\ svbox' = [svbox EXCEPT ![sv] = Tail(@)]
  /\ UNCHANGED <<idxbox, idle_workers, backlog, spawned, svjob, pbox, cin,
                 nquery, nasked, nfail, qhist>>
  /\ UNCHANGED storesVars

OpenOf(sv, q) == (CHOOSE j \in svjob[sv] : j.q = q).open

\* A partition has signalled done.
SvDone(sv) ==
  /\ svbox[sv] # <<>>
  /\ Head(svbox[sv]).type = "done"
  /\ LET m == Head(svbox[sv])
     IN  IF \E j \in svjob[sv] : j.q = m.q
           THEN SvSignal(sv, m, AfterDone(OpenOf(sv, m.q), m.p), cin[m.q])
           ELSE SvDrop(sv)

\* A partition has failed: the error is surfaced to the sink, the
\* supervisor goes on waiting for the other partitions.
SvError(sv) ==
  /\ svbox[sv] # <<>>
  /\ Head(svbox[sv]).type = "error"
  /\ LET m == Head(svbox[sv])
     IN  IF \E j \in svjob[sv] : j.q = m.q
           THEN SvSignal(sv, m, AfterError(OpenOf(sv, m.q), m.p),
                         Append(cin[m.q], SinkError))
           ELSE SvDrop(sv)

SpawnSupervisors == \E sv \in Supervisors : SpawnSupervisor(sv)
SvSupervises == \E sv \in Supervisors : SvSupervise(sv)
SvDones == \E sv \in Supervisors : SvDone(sv)
SvErrors == \E sv \in Supervisors : SvError(sv)
PartitionQueries == \E p \in Partitions : PartitionQuery(p)
PartitionFailures == \E p \in Partitions : PartitionFails(p)

InitQuery ==
  /\ PassiveParked /\ LookupParked /\ ActiveParked /\ PartitionsParked
  /\ ToolsParked
  /\ QueryInit

NextQuery ==
  \/ SpawnSupervisors
  \/ ClientQuery
  \/ IndexQuery
  \/ IndexWorker
  \/ SvSupervises
  \/ SvDones
  \/ SvErrors
  \/ PartitionQueries
  \/ PartitionFailures

SpecQuery == InitQuery /\ [][NextQuery]_vars

\* Saturation: the index runs, its supervisors have registered and are idle,
\* the partitions do not fail; clients send their queries at any time.
Registered ==
  {idle \in [1..workers -> Supervisors] :
     \A i, j \in 1..workers : idle[i] = idle[j] => i = j}

InitSaturation ==
  /\ PassiveParked /\ LookupParked /\ ActiveParked /\ PartitionsParked
  /\ ToolsParked
  /\ idxbox = <<>>
  /\ idle_workers \in Registered
  /\ backlog = EmptyBacklog
  /\ spawned = Supervisors
  /\ svbox = [sv \in Supervisors |-> <<>>]
  /\ svjob = [sv \in Supervisors |-> {}]
  /\ pbox = [p \in Partitions |-> <<>>]
  /\ cin = [q \in Queries |-> <<>>]
  /\ nquery = 0
  /\ nasked = 0
  /\ nfail = MaxFail
  /\ qhist = [InitQHist EXCEPT !.regs = [sv \in Supervisors |-> 1]]

NextSaturation ==
  \/ ClientQuery
  \/ IndexQuery
  \/ IndexWorker
  \/ SvSupervises
  \/ SvDones
  \/ PartitionQueries

\* Every actor with a message in its mailbox is scheduled eventually.
SpecSaturation ==
  /\ InitSaturation
  /\ [][NextSaturation]_vars
  /\ WF_vars(IndexQuery)
  /\ WF_vars(IndexWorker)
  /\ \A sv \in Supervisors : WF_vars(SvSupervise(sv)) /\ WF_vars(SvDone(sv))
  /\ \A p \in Partitions : WF_vars(PartitionQuery(p))

\* ---------------------------------------------------------------- rotation
\* What the ingest, the persistence and the loading of partitions leave
\* alone.
notPartVars == <<passiveVars, lkVars, activeVars, queryVars, toolVars>>

\* The index ingests a slice of n ids that fits the active partition: the
\* capacity decrements by n; at zero the partition is decommissioned, the
\* write of its synopsis starts, and a new active partition is created.
IngestSlice ==
  /\ ningested < MaxEvents
  /\ \E n \in 1..MaxSliceIds :
       /\ n <= active_partition.capacity
       /\ ningested + n <= MaxEvents
       /\ ningested' = ningested + n
       /\ LET ap == AddSlice(active_partition, n)
          IN  IF IsFull(ap)
                THEN /\ ap.id < MaxPartitions
                     /\ unpersisted' = Decommission(unpersisted, ap.id)
                     /\ writing' = writing \cup {ap.id}
                     /\ active_partition' = CreateActivePartition(ap.id + 1)
                     /\ phist' = [phist EXCEPT !.sizes[ap.id] = ap.events]
                ELSE /\ active_partition' = ap
                     /\ phist' = [phist EXCEPT !.sizes[ap.id] = ap.events]
                     /\ UNCHANGED <<unpersisted, writing>>
  /\ UNCHANGED <<inmem_partitions, persisted_partitions, nload>>
  /\ UNCHANGED notPartVars

\* The synopsis of a decommissioned partition is written: the partition
\* graduates to persisted_partitions.
PersistDone ==
  /\ \E id \in writing :
       /\ writing' = writing \ {id}
       /\ unpersisted' = Graduate(unpersisted, id)
       /\ persisted_partitions' = persisted_partitions \cup {id}
  /\ UNCHANGED <<active_partition, inmem_partitions, ningested, nload, phist>>
  /\ UNCHANGED notPartVars

\* The write fails: the partition remains in unpersisted.
PersistFails ==
  /\ \E id \in writing :
       /\ writing' = writing \ {id}
       /\ phist' = [phist EXCEPT !.failedWrites = @ \cup {id}]
  /\ UNCHANGED <<active_partition, unpersisted, inmem_partitions,
                 persisted_partitions, ningested, nload>>
  /\ UNCHANGED notPartVars

\* A query needs the actor of partition id: the active partition and the
\* unpersisted ones are at hand, a passive one comes from the LRU cache,
\* which loads it on a miss and drops its oldest entry on overflow.
LoadPartition ==
  /\ nload < MaxLoads
  /\ nload' = nload + 1
  /\ \E id \in 1..active_partition.id :
       IF ThroughCache(id, persisted_partitions, unpersisted)
         THEN LET cache == CacheTouch(inmem_partitions, id)
              IN  /\ inmem_partitions' = CacheShrink(cache)
                  /\ phist' =
                       [phist EXCEPT
                          !.served = @ \cup {[id |-> id, from |-> "cache"]},
                          !.evicted = @ \cup CacheEvicted(cache),
                          !.evictedUnpersisted =
                            @ \cup (CacheEvicted(cache) \cap unpersisted)]
         ELSE /\ phist' =
                   [phist EXCEPT
                      !.served = @ \cup
                        {[id |-> id,
                          from |-> IF id \in unpersisted THEN "unpersisted"
                                                         ELSE "active"]}]
              /\ UNCHANGED inmem_partitions
  /\ UNCHANGED <<active_partition, unpersisted, writing,
                 persisted_partitions, ningested>>
  /\ UNCHANGED notPartVars

InitPartitions ==
  /\ PassiveParked /\ LookupParked /\ ActiveParked /\ QueryParked
  /\ ToolsParked
  /\ PartitionsInit

NextPartitions ==
  \/ IngestSlice
  \/ PersistDone
  \/ PersistFails
  \/ LoadPartition

SpecPartitions == InitPartitions /\ [][NextPartitions]_vars

\* ---------------------------------------------------------------- claims
ExitPending == \E i \in 1..Len(mailbox) : mailbox[i].kind = "exit"

Idle == mailbox = <<>> /\ fsq = <<>> /\ fsWriting = <<>>

OrigOf(d) == d.orig

\* A request a loaded store answers in its handler; the other kind, an erase
\* query, is delegated to the erase handler through the mailbox.
Immediate(d) == ~(d.kind = "query" /\ d.cmd = "erase")
Delegated(d) == d.kind = "query" /\ d.cmd = "erase"

\* The order in which a loaded store answers requests ds that are in its
\* mailbox in this order.
ReadyOrder(ds) ==
  MapSeq(OrigOf, SelectSeq(ds, Immediate) \o SelectSeq(ds, Delegated))

WasDeferred(r) == r.req \in Range(MapSeq(OrigOf, hist.wasDeferred))

ReqOf(r) == r.req

\* C1: when requests were deferred before the load and the load succeeded
\* (and no exit message was sent), then once the store has handled all its
\* messages the deferred queue is empty and the deferred requests have been
\* answered in the order in which a loaded store answers them.
C1_DeferredFIFO ==
  (segment # <<>> /\ nexit = 0 /\ mailbox = <<>> /\ ~crashed)
    => /\ deferred_requests = <<>>
       /\ MapSeq(ReqOf, SelectSeq(responses, WasDeferred))
            = ReadyOrder(hist.wasDeferred)

\* C2: once a load failure has been dealt with (the actor has quit after a
\* failed mmap, the exit message the store sent itself after a parse failure
\* has been handled), every request that was in the deferred queue at the
\* failure has been answered with lookup_error.
C2_FailureFanOut ==
  (/\ hist.loadFailed # "none"
   /\ ~ExitPending
   /\ hist.loadFailed = "mmap" => status = "exited")
    => \A r \in hist.failedDeferred : Outcome(r) = "lookup_error"

\* C3: every request that was in the deferred queue when an exit message was
\* handled has been answered with lookup_error, and the queue is empty when
\* the exit handler ends.
C3_ExitCancelsDeferred ==
  /\ \A r \in hist.cancelled : Outcome(r) = "lookup_error"
  /\ hist.queueAfterExit = 0

\* C4: after a load failure has been dealt with the store has exited.
C4_LoadFailureExits ==
  (hist.loadFailed # "none" /\ ~ExitPending) => status = "exited"

\* C5: every query is evaluated against a segment that holds no record of
\* an erase that was answered with done before.
C5_EraseVisible ==
  \A l \in hist.lookups : l.seg \cap l.erased = {}

\* C6: an erase is answered with done only when its replacement segment has
\* been written and renamed over the segment file.
C6_DoneAfterCommit ==
  hist.doneErases \subseteq hist.committed

\* C7: an erase whose write failed is answered with an error, not with done,
\* and no rename is attempted for it (so the file at the store's path stays
\* the one from before the erase).
C7_FailedEraseReturnsError ==
  \A r \in hist.writeFailed :
    /\ r \notin hist.doneErases
    /\ Outcome(r) = "error"
    /\ r \notin hist.committed \cup hist.renameFailed

\* C8: the in-memory segment is replaced by the copy of an erase only when
\* the write and the rename of that erase succeeded.
C8_SwapOnlyOnSuccess ==
  \A r \in hist.swapped : r \in hist.committed /\ r \notin hist.renameFailed

\* C9: at every point (so wherever the process is killed) the file at the
\* path the store was opened with is complete: the segment before or after
\* an erase, never a partial write.
C9_AtomicReplace ==
  /\ files[StorePath].kind # "partial"
  /\ files[StorePath].kind = "complete" => files[StorePath].ids \subseteq Original

\* C10: an erase does not change the store's path, and when all erases of a
\* run succeeded the file at the path the store was opened with holds the
\* original segment without the ids of these erases.
C10_FilenameReuse ==
  /\ path = StorePath
  /\ (/\ Idle
      /\ hist.nerase > 0
      /\ Cardinality(hist.committed) = hist.nerase)
       => files[StorePath] = Complete(Original \ hist.committedIds)

\* ------------------------------------------------- claims on handle_lookup
\* The request of the lookup specification has been handled, handle_lookup
\* was called, and the query has the given command.
LkHandled(cmd) ==
  /\ lkOut # <<>>
  /\ lkOut[1].lookup = "ok"
  /\ lkIn.query.cmd = cmd

\* Record id satisfies the expression of the query.
Satisfies(expr, id) == expr = EmptyExpr \/ Value(id, expr.field) = expr.value

\* Every slice has the field the expression names.
Tailorable(expr, slices) ==
  expr = EmptyExpr
  \/ \A i \in 1..Len(slices) : expr.field \in Fields(slices[i].layout)

\* The ids of the records of slices that are in ids and satisfy expr.
Hits(slices, expr, ids) ==
  {r \in UNION {slices[i].ids : i \in 1..Len(slices)} :
     r \in ids /\ Satisfies(expr, r)}

RECURSIVE SumN(_)
SumN(msgs) == IF msgs = <<>> THEN 0 ELSE Head(msgs).n + SumN(Tail(msgs))

SetMax(S) == CHOOSE i \in S : \A j \in S : i >= j

\* C12: an exact count whose expression fits the slices sends one count per
\* slice that lookup(ids) returned, each the number of records of that slice
\* in ids that satisfy the expression, and ends with done; the counts add up
\* to the number of such records of the whole segment.
C12_CountExact ==
  (/\ LkHandled("count")
   /\ lkIn.query.mode = "exact"
   /\ Tailorable(lkIn.query.expr, lkOut[1].slices))
    => LET out == lkOut[1] IN
       /\ out.result = "done"
       /\ Len(out.sent) = Len(out.slices)
       /\ \A i \in 1..Len(out.sent) :
            /\ out.sent[i].kind = "count"
            /\ out.sent[i].n =
                 Cardinality(Hits(<<out.slices[i]>>, lkIn.query.expr, lkIn.ids))
       /\ SumN(out.sent)
            = Cardinality(Hits(lkIn.segment, lkIn.query.expr, lkIn.ids))

\* Witness of C12: two slices are returned, one has no matching record and
\* yields the count 0, the other has one.
C12_Witness ==
  /\ LkHandled("count")
  /\ lkIn.query.mode = "exact"
  /\ lkIn.query.expr # EmptyExpr
  /\ lkOut[1].result = "done"
  /\ Len(lkOut[1].sent) = 2
  /\ lkOut[1].sent[1].n = 0
  /\ lkOut[1].sent[2].n > 0
  /\ lkIn.ids # Rows

\* C13 as claimed: every count with mode estimate that reaches handle_lookup
\* aborts the process, sends nothing and is not answered.
C13_EstimateAborts ==
  (LkHandled("count") /\ lkIn.query.mode = "estimate")
    => lkOut[1].result = "die" /\ lkOut[1].sent = <<>>

\* C13 amended: a count with mode estimate that reaches handle_lookup sends
\* nothing and is not answered with done; it aborts the process unless the
\* tailoring of the expression fails for a slice, in which case the request
\* is answered with that error.
C13_EstimateAbortsUnlessTailoringFails ==
  (LkHandled("count") /\ lkIn.query.mode = "estimate")
    => /\ lkOut[1].sent = <<>>
       /\ lkOut[1].result # "done"
       /\ Tailorable(lkIn.query.expr, lkOut[1].slices)
            <=> lkOut[1].result = "die"
       /\ ~Tailorable(lkIn.query.expr, lkOut[1].slices)
            <=> lkOut[1].result = "error"

\* Witness of C13: an estimate over two slices with matching records has
\* aborted the process.
C13_Witness ==
  /\ LkHandled("count")
  /\ lkIn.query.mode = "estimate"
  /\ Len(lkOut[1].slices) = 2
  /\ Hits(lkOut[1].slices, lkIn.query.expr, lkIn.ids) # {}
  /\ lkOut[1].result = "die"

\* C14: an extract with policy preserve_ids whose expression fits the slices
\* ends with done; the sink receives slices only, each a non-empty run of
\* consecutive ids, in ascending id order, and the ids received are exactly
\* the ids of the records of the segment that are in ids and satisfy the
\* expression.
C14_PreserveIds ==
  (/\ LkHandled("extract")
   /\ lkIn.query.policy = "preserve_ids"
   /\ Tailorable(lkIn.query.expr, lkOut[1].slices))
    => LET out == lkOut[1] IN
       /\ out.result = "done"
       /\ \A k \in 1..Len(out.sent) :
            /\ out.sent[k].kind = "slice"
            /\ out.sent[k].slice.ids # {}
            /\ out.sent[k].slice.ids
                 = SetMin(out.sent[k].slice.ids)..SetMax(out.sent[k].slice.ids)
       /\ \A k \in 1..(Len(out.sent) - 1) :
            SetMax(out.sent[k].slice.ids) < SetMin(out.sent[k + 1].slice.ids)
       /\ UNION {out.sent[k].slice.ids : k \in 1..Len(out.sent)}
            = Hits(lkIn.segment, lkIn.query.expr, lkIn.ids)

\* Witness of C14: two matching records that are not neighbours have arrived
\* as two slices of one record, out of one slice that holds more records in
\* ids.
C14_Witness ==
  /\ LkHandled("extract")
  /\ lkIn.query.policy = "preserve_ids"
  /\ lkIn.query.expr # EmptyExpr
  /\ Len(lkOut[1].slices) = 1
  /\ Len(lkOut[1].sent) = 2
  /\ \A k \in 1..2 : Cardinality(lkOut[1].sent[k].slice.ids) = 1
  /\ Cardinality(lkOut[1].slices[1].ids \cap lkIn.ids) > 2
  /\ lkIn.ids # Rows

\* C15: an extract with policy drop_ids whose expression fits the slices
\* sends at most one slice per slice that lookup(ids) returned, never an
\* empty one: exactly one for each slice with a record in ids that satisfies
\* the expression.
C15_DropIds ==
  (/\ LkHandled("extract")
   /\ lkIn.query.policy = "drop_ids"
   /\ Tailorable(lkIn.query.expr, lkOut[1].slices))
    => LET out == lkOut[1] IN
       /\ out.result = "done"
       /\ Len(out.sent) <= Len(out.slices)
       /\ \A k \in 1..Len(out.sent) :
            out.sent[k].kind = "slice" /\ out.sent[k].slice.ids # {}
       /\ Len(out.sent)
            = Cardinality({i \in 1..Len(out.slices) :
                Hits(<<out.slices[i]>>, lkIn.query.expr, lkIn.ids) # {}})

\* Witness of C15: of two slices one has no matching record in ids, and one
\* message was sent.
C15_Witness ==
  /\ LkHandled("extract")
  /\ lkIn.query.policy = "drop_ids"
  /\ lkOut[1].result = "done"
  /\ Len(lkOut[1].slices) = 2
  /\ Len(lkOut[1].sent) = 1

\* C16: when the tailoring fails for a slice that lookup(ids) returned the
\* request ends with the error and nothing is sent to the sink; a query with
\* the empty expression does not end with an error.
C16_TailoringFatal ==
  (lkOut # <<>> /\ lkOut[1].lookup = "ok")
    => /\ ~Tailorable(lkIn.query.expr, lkOut[1].slices)
            => lkOut[1].result = "error" /\ lkOut[1].sent = <<>>
       /\ lkIn.query.expr = EmptyExpr => lkOut[1].result # "error"

\* Witness of C16: the tailoring succeeds for the first slice, which has
\* matching records, and fails for the second; the request ended with the
\* error.
C16_Witness ==
  /\ lkOut # <<>>
  /\ lkOut[1].lookup = "ok"
  /\ lkIn.query.cmd \in {"count", "extract"}
  /\ lkIn.query.mode # "estimate"
  /\ Len(lkOut[1].slices) = 2
  /\ lkIn.query.expr.field \in Fields(lkOut[1].slices[1].layout)
  /\ lkIn.query.expr.field \notin Fields(lkOut[1].slices[2].layout)
  /\ Hits(<<lkOut[1].slices[1]>>, lkIn.query.expr, lkIn.ids) # {}
  /\ lkOut[1].result = "error"

\* ------------------------------------------------- claims on the stores
\* C11: no query whose command is erase is given to handle_lookup, by the
\* passive and by the active store, whatever requests they get and whether or
\* not a request was deferred before the load and dispatched again.
C11_EraseNeverLookedUp ==
  /\ "erase" \notin hist.lookupCmds
  /\ "erase" \notin ahist.lookupCmds

\* Witness of C11: an erase query that the passive store deferred before the
\* load was dispatched again and delegated to the erase handler, and a
\* count was given to handle_lookup.
C11_Witness ==
  /\ "count" \in hist.lookupCmds
  /\ \E i \in 1..Len(hist.wasDeferred) :
       /\ hist.wasDeferred[i].kind = "query"
       /\ hist.wasDeferred[i].cmd = "erase"
       /\ hist.wasDeferred[i].orig \in hist.delegated

\* The slices of s at the positions in I, in order.
RECURSIVE SubSeqOn(_, _, _)
SubSeqOn(s, I, k) ==
  IF k > Len(s) THEN <<>>
  ELSE (IF k \in I THEN <<s[k]>> ELSE <<>>) \o SubSeqOn(s, I, k + 1)

\* C17: after an erase(ids) that succeeded the builder of the active store
\* has the UUID it had before and holds exactly the records it held before
\* whose id is not in ids, in the layouts they had; a lookup of ids returns
\* nothing.
C17_ActiveErase ==
  ahist.lastErase # <<>> =>
    LET e == ahist.lastErase[1] IN
    /\ e.after.id = e.before.id
    /\ IdsOf(e.after.slices) = IdsOf(e.before.slices) \ e.ids
    /\ \A i \in 1..Len(e.after.slices) :
         \E j \in 1..Len(e.before.slices) :
           /\ e.after.slices[i].layout = e.before.slices[j].layout
           /\ e.after.slices[i].ids \subseteq e.before.slices[j].ids
    /\ BuilderLookup(e.after, e.ids) = <<>>

\* Witness of C17: an erase has removed a record of a builder that held
\* more records than that.
C17_Witness ==
  /\ ahist.lastErase # <<>>
  /\ ahist.lastErase[1].before.usable
  /\ ahist.lastErase[1].ids \cap IdsOf(ahist.lastErase[1].before.slices) # {}
  /\ ahist.lastErase[1].after.slices # <<>>

\* C18: once the active store has handled an exit message it has issued
\* exactly one write request, for the path of the store, with a segment that
\* holds every record added and not erased.
C18_ExitFlushes ==
  astatus = "exited" =>
    /\ Len(ahist.writes) = 1
    /\ ahist.writes[1].path = StorePath
    /\ IdsOf(ahist.writes[1].seg.slices) = ahist.added

\* C19: an active store that sealed a non-empty segment has terminated only
\* if the filesystem has answered the write of that segment.
C19_FlushBeforeExit ==
  (/\ astatus = "exited"
   /\ ahist.writes # <<>>
   /\ ahist.writes[1].seg.slices # <<>>)
    => ahist.acks = Len(ahist.writes)

\* C20: of a batch of the stream exactly the slices whose own add fails are
\* dropped, every other slice is appended to the builder in the order of the
\* batch, and the stream is open after the batch; this holds for every
\* batch, whatever failed before it.
C20_IngestErrors ==
  ahist.lastBatch # <<>> =>
    LET e == ahist.lastBatch[1]
        earlier(Acc, k) ==
          {e.before.slices[i] : i \in 1..Len(e.before.slices)}
          \cup {e.batch[j] : j \in {a \in Acc : a < k}}
    IN /\ e.stream = "open"
       /\ \E Acc \in SUBSET (1..Len(e.batch)) :
            /\ \A k \in 1..Len(e.batch) :
                 k \in Acc <=>
                   /\ e.before.usable
                   /\ \A s \in earlier(Acc, k) :
                        ~Conflicts(s.layout, e.batch[k].layout)
            /\ e.after.slices = e.before.slices \o SubSeqOn(e.batch, Acc, 1)

\* Witness of C20: the add of the first slice of a batch failed and the
\* second slice of the batch is in the builder.
C20_Witness ==
  /\ ahist.lastBatch # <<>>
  /\ Len(ahist.lastBatch[1].batch) = 2
  /\ ahist.lastBatch[1].before.slices # <<>>
  /\ ahist.lastBatch[1].after.slices
       = Append(ahist.lastBatch[1].before.slices, ahist.lastBatch[1].batch[2])

\* C30: a count (exact) or extract query whose ids are empty or hold no
\* record of the store succeeds: the lookup does not fail, the request ends
\* with done and nothing is sent to the sink.
C30_DisjointIdsSucceed ==
  (/\ lkOut # <<>>
   /\ \/ lkIn.query.cmd = "extract"
      \/ lkIn.query.cmd = "count" /\ lkIn.query.mode = "exact"
   /\ lkIn.ids \cap IdsOf(lkIn.segment) = {})
    => /\ lkOut[1].lookup = "ok"
       /\ lkOut[1].result = "done"
       /\ lkOut[1].sent = <<>>

\* Witness of C30: a query with an expression, for ids that are not empty
\* and hold no record of a store of two slices, has ended with done.
C30_Witness ==
  /\ lkOut # <<>>
  /\ lkIn.query.cmd \in {"count", "extract"}
  /\ lkIn.query.mode # "estimate"
  /\ lkIn.query.expr # EmptyExpr
  /\ lkIn.ids # {}
  /\ Len(lkIn.segment) = 2
  /\ IdsOf(lkIn.segment) # {}
  /\ lkIn.ids \cap IdsOf(lkIn.segment) = {}
  /\ lkOut[1].result = "done"


\* ---------------------------------------- claims on the query supervisors

\* The (worker, sv) messages the index has not handled yet.
PendingRegistrations(sv) ==
  Cardinality({i \in 1..Len(idxbox) : idxbox[i] = WorkerMsg(sv)})
\* The supervise requests supervisor sv has not handled yet.
PendingSupervise(sv) ==
  Cardinality({i \in 1..Len(svbox[sv]) : svbox[sv][i].type = "supervise"})
IsIdle(sv) == \E i \in 1..Len(idle_workers) : idle_workers[i] = sv

\* C21: a supervisor that has not run has sent nothing and is asked
\* nothing; once spawned, and as long as it has received no supervise
\* request, it has sent (worker, self) to its master exactly once, and that
\* message is in the master's mailbox or the master has handled it.
C21_RegistersOnSpawn ==
  \A sv \in Supervisors :
    /\ sv \notin spawned
         => /\ qhist.regs[sv] = 0
            /\ PendingRegistrations(sv) = 0
            /\ ~IsIdle(sv)
            /\ svbox[sv] = <<>>
    /\ (sv \in spawned /\ qhist.supervised[sv] = 0)
         => /\ qhist.regs[sv] = 1
            /\ PendingRegistrations(sv) + PendingSupervise(sv)
                 + (IF IsIdle(sv) THEN 1 ELSE 0) = 1
C21_Witness ==
  \E sv \in Supervisors :
    /\ sv \in spawned
    /\ qhist.supervised[sv] = 0
    /\ PendingSupervise(sv) = 1
    /\ qhist.regs[sv] = 1

\* What the sink of query q has received: the counts, and how many done.
Counts(q) == SelectSeq(cin[q], LAMBDA m : m.type = "count")
NumDone(q) == Cardinality({i \in 1..Len(cin[q]) : cin[q][i] = SinkDone})
NumError(q) == Cardinality({i \in 1..Len(cin[q]) : cin[q][i] = SinkError})
\* The ids of the partitions of a query map.
IdsOfMap(qm) == UNION {PartitionIds[p] : p \in qm}

\* C22: the sink of a query never has more count messages than the query
\* map has partitions, nor more than one done, and nothing after the done;
\* when the supervisor has finished a request none of whose partitions
\* failed, the sink has one count per partition of the map, their sum is the
\* number of ids of these partitions, and exactly one done, the last message.
C22_Aggregation ==
  \A q \in Queries :
    /\ Len(Counts(q)) <= Cardinality(qhist.qm[q])
    /\ NumDone(q) <= 1
    /\ NumDone(q) = 1 => cin[q][Len(cin[q])] = SinkDone
    /\ (q \in qhist.finishedQ /\ qhist.failed[q] = {})
         => /\ NumDone(q) = 1
            /\ Len(cin[q]) = Cardinality(qhist.qm[q]) + 1
            /\ Len(Counts(q)) = Cardinality(qhist.qm[q])
            /\ SumN(Counts(q)) = Cardinality(IdsOfMap(qhist.qm[q]))
C22_Witness ==
  \E q \in Queries :
    /\ q \in qhist.finishedQ
    /\ qhist.qm[q] = Partitions
    /\ qhist.failed[q] = {}
    /\ cin[q][1] = SinkCount(Rank(PartitionIds[2]))
    /\ cin[q][3] = SinkCount(Rank(PartitionIds[0]))
    /\ SumN(Counts(q)) = 9
    /\ cin[q][4] = SinkDone

\* A supervisor is busy from the moment the index hands it a request until it
\* has registered again.
Busy(sv) == PendingSupervise(sv) + Cardinality(svjob[sv])
\* No query is being processed: no supervisor is busy, and the index has
\* handled every message sent to it.
NoQueryProcessed ==
  /\ spawned = Supervisors
  /\ idxbox = <<>>
  /\ \A sv \in Supervisors : Busy(sv) = 0

\* C23: a supervisor has registered once when it was spawned and once for
\* every supervise request it has finished; a request is finished only when
\* every partition of its query map has signalled; every spawned supervisor
\* is either registering, idle or busy with one request; hence when no query
\* is being processed idle_workers holds all workers supervisors.
C23_WorkerPool ==
  /\ \A sv \in spawned :
       /\ qhist.regs[sv] = 1 + qhist.finished[sv]
       /\ PendingRegistrations(sv) + (IF IsIdle(sv) THEN 1 ELSE 0) + Busy(sv)
            = 1
  /\ \A q \in qhist.finishedQ : qhist.signalled[q] = qhist.qm[q]
  /\ \A i, j \in 1..Len(idle_workers) :
       idle_workers[i] = idle_workers[j] => i = j
  /\ NoQueryProcessed => Len(idle_workers) = workers
C23_Witness ==
  /\ NoQueryProcessed
  /\ Len(idle_workers) = workers
  /\ \E sv \in Supervisors : qhist.finished[sv] = 1 /\ qhist.regs[sv] = 2
  /\ \E q \in qhist.finishedQ : Cardinality(qhist.qm[q]) >= 2

\* C24: the sink of a query has one error for every failure of a partition
\* the supervisor has seen; a request with a failed partition is finished
\* (the supervisor registers again) only when every partition of the map has
\* signalled, the sink then holding the counts of all partitions that did
\* not fail; the sink never has more than one done.
C24_PartitionFailure ==
  \A q \in Queries :
    /\ NumError(q) = Cardinality(qhist.failed[q] \cap qhist.signalled[q])
    /\ NumDone(q) <= 1
    /\ (q \in qhist.finishedQ /\ qhist.failed[q] # {})
         => /\ qhist.signalled[q] = qhist.qm[q]
            /\ Len(Counts(q)) = Cardinality(qhist.qm[q] \ qhist.failed[q])
            /\ \A sv \in Supervisors :
                 /\ \A j \in svjob[sv] : j.q # q
                 /\ \A i \in 1..Len(svbox[sv]) : svbox[sv][i].q # q
            /\ \A p \in Partitions :
                 \A i \in 1..Len(pbox[p]) : pbox[p][i].q # q
C24_Witness ==
  \E q \in qhist.finishedQ :
    /\ qhist.failed[q] # {}
    /\ qhist.qm[q] = Partitions
    /\ cin[q][1] = SinkError
    /\ Len(Counts(q)) = 2
    /\ NumDone(q) = 1
    /\ \E sv \in Supervisors : qhist.regs[sv] = 2

\* ------------------------------------------------ claims on the dispatch

\* The queries of a queue of jobs, in order.
QueryIds(jobs) == [i \in 1..Len(jobs) |-> jobs[i].q]

\* C27: the queries that arrived while no supervisor was idle are the ones
\* that were put in the backlog; no job waits while a supervisor is idle
\* (a registration takes the next job); no job of low was taken while
\* normal held one; the jobs taken from a queue, followed by the ones still
\* in it, are the queue's arrivals in their order.
C27_BacklogOrder ==
  /\ qhist.noIdle = Range(qhist.arrivals.normal) \cup Range(qhist.arrivals.low)
  /\ ~(idle_workers # <<>> /\ backlog # EmptyBacklog)
  /\ ~qhist.lowOverNormal
  /\ \A prio \in Priorities :
       /\ qhist.arrivals[prio] = qhist.taken[prio] \o QueryIds(backlog[prio])
       /\ \A i \in 1..Len(backlog[prio]) : backlog[prio][i].prio = prio
C27_Witness ==
  /\ qhist.arrivals.low = <<1>>
  /\ qhist.arrivals.normal = <<2, 3>>
  /\ qhist.taken.normal = <<2, 3>>
  /\ qhist.taken.low = <<1>>

\* The queries handed to a supervisor and not finished.
InFlight == {q \in Queries : \E i \in 1..Len(qhist.dispatches) :
                               qhist.dispatches[i].q = q} \ qhist.finishedQ
\* Query q has been answered: the counts of its partitions and one done, no
\* error.
Succeeded(q) ==
  /\ q \in qhist.finishedQ
  /\ Len(Counts(q)) = Cardinality(qhist.qm[q])
  /\ NumError(q) = 0
  /\ cin[q][Len(cin[q])] = SinkDone
  /\ NumDone(q) = 1
SaturationSafe ==
  /\ Cardinality(InFlight) <= workers
  /\ \A sv \in Supervisors : Busy(sv) <= 1
  /\ \A i \in 1..Len(qhist.dispatches) :
       LET d == qhist.dispatches[i]
           before == {j \in 1..(i - 1) : qhist.dispatches[j].sv = d.sv}
       IN  /\ d.svFinished = Cardinality(before)
           /\ \A j \in before : qhist.dispatches[j].q \in qhist.finishedQ
           /\ i > workers => d.finishedBefore >= i - workers
           /\ d.fromBacklog => d.svFinished >= 1

\* C28: at most workers queries are in flight, at most one per supervisor;
\* a supervisor is handed a query only when it has finished every query it
\* was handed before, so a query beyond the first workers starts after as
\* many predecessors have finished, and a query of the backlog after its
\* supervisor has finished one; every query sent to the index is eventually
\* answered with all its counts and done.
C28_Saturation ==
  /\ []SaturationSafe
  /\ \A q \in Queries : (nquery >= q) ~> Succeeded(q)
C28_Witness ==
  /\ nquery = workers + 1
  /\ \A q \in Queries : Succeeded(q)
  /\ Len(qhist.dispatches) = workers + 1
  /\ qhist.dispatches[workers].finishedBefore = 0
  /\ qhist.dispatches[workers + 1].fromBacklog

\* ----------------------------------------------- claims on the partitions

\* The partitions the index has created.
Created == 1..active_partition.id
Sealed == unpersisted \cup persisted_partitions
CacheIds == {inmem_partitions[i] : i \in 1..Len(inmem_partitions)}

\* C25: of the partitions created so far exactly one is neither unpersisted
\* nor persisted, the active one; every other one is either in unpersisted
\* or in persisted_partitions, never in both; the partitions of the LRU
\* cache are persisted ones and a synopsis is only written for an
\* unpersisted one.
C25_PartitionSets ==
  /\ Created \ Sealed = {active_partition.id}
  /\ Sealed \subseteq Created
  /\ unpersisted \cap persisted_partitions = {}
  /\ CacheIds \subseteq persisted_partitions
  /\ writing \subseteq unpersisted
C25_Witness ==
  /\ unpersisted # {}
  /\ phist.failedWrites # {}
  /\ Cardinality(persisted_partitions) > max_inmem_partitions
  /\ phist.evicted # {}
  /\ active_partition.events > 0

\* C26: the LRU cache never evicted a partition that was in unpersisted, for
\* it never holds one: the cache holds at most max_inmem_partitions ids,
\* none of them in unpersisted, and a query is served an unpersisted
\* partition from the unpersisted map.
C26_UnpersistedPinned ==
  /\ phist.evictedUnpersisted = {}
  /\ CacheIds \cap unpersisted = {}
  /\ Len(inmem_partitions) <= max_inmem_partitions
  /\ \A s \in phist.served : s.from = "cache" => s.id \notin unpersisted
C26_Witness ==
  /\ phist.evicted # {}
  /\ Len(inmem_partitions) = max_inmem_partitions
  /\ \E id \in unpersisted : [id |-> id, from |-> "unpersisted"] \in phist.served

WasDeferredOrigs ==
  {hist.wasDeferred[i].orig : i \in DOMAIN hist.wasDeferred}

AppliedAt(r) == {i \in DOMAIN hist.applied : hist.applied[i] = r}

AppliedBefore(r1, r2) ==
  \E i \in AppliedAt(r1) : \A j \in AppliedAt(r2) : i < j

\* C31: of two requests r1 < r2 of the client, r1 deferred before the load
\* and r2 sent after the load completed, the store handles r1 before r2:
\* whenever r2 has been evaluated or applied, r1 was before it.
C31_SameSenderOrder ==
  \A r1, r2 \in 1..MaxReq :
    (/\ r1 < r2
     /\ r1 \in WasDeferredOrigs
     /\ r2 \in hist.sentLoaded
     /\ AppliedAt(r2) # {})
    => AppliedBefore(r1, r2)


\* ---------------------------------------------------------------- claims on overlapping erases

\* Every write request has been answered, every write and rename succeeded.
AllWritesCompleted ==
  /\ hist.nerase = Cardinality(hist.committed)
  /\ hist.committed = hist.swapped
  /\ fsWriting = <<>>

NoLostEraseInMemory ==
  (hist.overlap # {} /\ AllWritesCompleted /\ segment # <<>>)
    => segment[1] \cap hist.committedIds = {}

NoLostEraseOnFile ==
  (hist.overlap # {} /\ AllWritesCompleted /\ segment # <<>>)
    => \A p \in Paths :
         files[p].kind = "complete" => files[p].ids \cap hist.committedIds = {}

\* C32: when an erase was handled while the write of an earlier one was
\* outstanding and both writes completed, neither the in-memory segment nor
\* the segment file holds a record with an id of either erase.
C32_NoLostErase == NoLostEraseInMemory /\ NoLostEraseOnFile

\* ---------------------------------------------------------------- claims on pending requests

\* Nothing is left that could produce a response: the store has no message
\* to handle and the filesystem owes it no answer.
Quiescent == Idle /\ ~crashed

\* C33: no request stays pending: once the store has handled every message
\* and the filesystem has answered every request of the store, each request
\* sent to the store has been answered with done or an error.
C33_NothingPendingForever ==
  Quiescent => \A r \in 1..nreq : Outcome(r) # "none"

\* ---------------------------------------------------------------- claims on a failed erase

\* The step is an erase of the active store that is answered with an error.
FailedEraseStep == ahist'.failedErases = ahist.failedErases + 1

\* C34: an erase of the active store whose seg.erase(ids) fails is answered
\* with the error and leaves the builder holding every slice it held
\* before.
C34_FailedEraseKeepsState ==
  [][FailedEraseStep =>
       /\ builder'.slices = builder.slices
       /\ aresponses' = aresponses \o Respond(Head(amailbox).req, "error")]_vars

\* ---------------------------------------------------------------- sink actor
\* Every other actor of the model is at rest.
StoresParked ==
  /\ PassiveParked /\ LookupParked /\ ActiveParked
  /\ QueryParked /\ PartitionsParked

otherThanSink ==
  <<passiveVars, lkVars, activeVars, queryVars, partVars, readerVars,
    zigzagVars, bloomVars>>

\* handler (std::vector<event>& xs), xs.size() = n
SinkEvents ==
  /\ sstatus = "running"
  /\ \E n \in 0..MaxBatchEvents :
       LET remaining == USub(max_events, processed)
           k == DropExcess(n, remaining)
           w == Write(writer, k)
           p == UAdd(processed, k)
       IN \/ \* remaining == 0: reached_max_events()
             /\ remaining = 0
             /\ writer' = Flush(writer)
             /\ sstatus' = "exited"
             /\ shist' = [shist EXCEPT !.reason = "cap"]
             /\ UNCHANGED processed
          \/ \* st.writer.write(xs) returns an error: quit(err)
             /\ remaining # 0
             /\ writer' = [writer EXCEPT !.passed = @ + k]
             /\ sstatus' = "exited"
             /\ shist' = [shist EXCEPT
                            !.reason = "error",
                            !.lastBatch = <<[size |-> n, written |-> k]>>]
             /\ UNCHANGED processed
          \/ \* the events are written and counted
             /\ remaining # 0
             /\ processed' = p
             /\ IF p >= max_events
                  THEN \* reached_max_events()
                       /\ writer' = Flush(w)
                       /\ sstatus' = "exited"
                       /\ shist' = [shist EXCEPT
                                      !.reason = "cap",
                                      !.lastBatch =
                                        <<[size |-> n, written |-> k]>>]
                  ELSE \* flush if the flush interval has passed
                       /\ \E due \in BOOLEAN :
                            writer' = IF due THEN Flush(w) ELSE w
                       /\ shist' = [shist EXCEPT
                                      !.lastBatch =
                                        <<[size |-> n, written |-> k]>>]
                       /\ UNCHANGED sstatus
  /\ UNCHANGED max_events
  /\ UNCHANGED otherThanSink

\* handler (limit_atom, uint64_t max)
SinkLimit ==
  /\ sstatus = "running"
  /\ \E max \in 0..MaxLimit :
       /\ max_events' = IF processed < max THEN max ELSE max_events
       /\ shist' = [shist EXCEPT
                      !.lastLimit = <<[processed |-> processed,
                                       old |-> max_events, new |-> max,
                                       after |-> max_events']>>]
  /\ UNCHANGED <<processed, sstatus, writer>>
  /\ UNCHANGED otherThanSink

\* exit handler: send_report() and quit(msg.reason)
SinkExit ==
  /\ sstatus = "running"
  /\ sstatus' = "exited"
  /\ shist' = [shist EXCEPT !.reason = "exit"]
  /\ UNCHANGED <<processed, max_events, writer>>
  /\ UNCHANGED otherThanSink

InitSink ==
  /\ StoresParked
  /\ SinkInit
  /\ ReaderParked /\ ZigzagParked /\ BloomParked

NextSink ==
  \/ SinkEvents
  \/ SinkLimit
  \/ SinkExit

SpecSink == InitSink /\ [][NextSink]_vars

\* ---------------------------------------------------------------- claims on the sink

\* C35: the sink never counts more events than its cap and never passes
\* more to the writer; a running sink is below its cap, and a sink that
\* reached the cap has flushed the writer and quit; a limit update changes
\* the cap only if fewer events than the new limit have been processed; a
\* cap of 0 at spawn is the largest value of the counter.
C35_EventCap ==
  /\ processed <= max_events
  /\ writer.passed <= max_events
  /\ sstatus = "running" => processed < max_events
  /\ (processed = max_events \/ shist.reason = "cap")
       => /\ sstatus = "exited"
          /\ shist.reason = "cap"
          /\ processed = max_events
          /\ writer.unflushed = 0
  /\ shist.lastLimit # <<>> =>
       LET l == shist.lastLimit[1] IN
       /\ l.after # l.old => l.processed < l.new
       /\ l.processed < l.new => l.after = l.new
  /\ shist.spawn = 0 => shist.spawnMax = UintMax
  /\ shist.spawn > 0 => shist.spawnMax = shist.spawn

\* Witness of C35: the sink lowered its cap on a limit update, then cut a
\* batch that exceeded what was left of it, flushed and quit at the cap.
C35_Witness ==
  /\ shist.spawn = 0
  /\ shist.lastLimit # <<>>
  /\ shist.lastLimit[1].after < shist.lastLimit[1].old
  /\ shist.lastLimit[1].processed > 0
  /\ shist.lastBatch # <<>>
  /\ shist.lastBatch[1].written < shist.lastBatch[1].size
  /\ shist.reason = "cap"
  /\ processed = max_events

\* ---------------------------------------------------------------- reader actor
otherThanReader ==
  <<passiveVars, lkVars, activeVars, queryVars, partVars, sinkVars,
    zigzagVars, bloomVars>>

\* on(atom("extract"), arg_match) >> [=](size_t batch_size)
ReaderExtract ==
  /\ rstatus = "running"
  /\ rhist.n < MaxExtract
  /\ \E batch_size \in 0..MaxBatchSize :
       LET first == IF file_.fail THEN <<"done">> ELSE <<>>
           e == Extract(file_, batch_size, <<>>, 0)
           last == IF e.file.fail THEN "done" ELSE "ack"
       IN /\ file_' = e.file
          /\ total_events_' = total_events_ + Len(e.events)
          /\ upstream' = IF e.events # <<>> THEN Append(upstream, e.events)
                         ELSE upstream
          /\ replies' = replies \o first \o <<last>>
          /\ rhist' = [n |-> rhist.n + 1,
                       last |-> <<[batch_size |-> batch_size,
                                   failBefore |-> file_.fail,
                                   failAfter |-> e.file.fail,
                                   sent |-> Len(upstream') - Len(upstream),
                                   events |-> Len(e.events),
                                   replies |-> first \o <<last>>]>>]
  /\ UNCHANGED rstatus
  /\ UNCHANGED otherThanReader

\* on(atom("shutdown")): self->quit()
ReaderShutdown ==
  /\ rstatus = "running"
  /\ rstatus' = "exited"
  /\ UNCHANGED <<file_, total_events_, upstream, replies, rhist>>
  /\ UNCHANGED otherThanReader

InitReader ==
  /\ StoresParked
  /\ ReaderInit
  /\ SinkParked /\ ZigzagParked /\ BloomParked

NextReader ==
  \/ ReaderExtract
  \/ ReaderShutdown

SpecReader == InitReader /\ [][NextReader]_vars

\* ---------------------------------------------------------------- claims on the reader

\* C36: the reader answers every extract(batch_size) with exactly one
\* reply, ack if the file can still be read after the batch and done
\* otherwise, also when the file was in an error state before; it sends at
\* most batch_size events upstream for the request and no empty batch.
C36_OneReplyPerExtract ==
  /\ rhist.last # <<>> =>
       LET l == rhist.last[1] IN
       /\ l.replies = <<IF l.failAfter THEN "done" ELSE "ack">>
       /\ l.events <= l.batch_size
       /\ l.events = 0 => l.sent = 0
  /\ \A i \in 1..Len(upstream) : upstream[i] # <<>>

\* ---------------------------------------------------------------- zig-zag coding
otherThanZigzag ==
  <<passiveVars, lkVars, activeVars, queryVars, partVars, sinkVars,
    readerVars, bloomVars>>

\* The value the next call is given, and whether it is of the signed type.
ZigzagCurrent == IF zout = <<>> THEN zin.value ELSE zout[Len(zout)]
ZigzagSigned == (zin.kind = "signed") <=> (Len(zout) % 2 = 0)

\* encode is applied to the input or to the value decode returned.
ZigzagEncode ==
  /\ Len(zout) < 2
  /\ ZigzagSigned
  /\ zout' = Append(zout, Encode(ZigzagCurrent))
  /\ UNCHANGED zin
  /\ UNCHANGED otherThanZigzag

\* decode is applied to the input or to the value encode returned.
ZigzagDecode ==
  /\ Len(zout) < 2
  /\ ~ZigzagSigned
  /\ zout' = Append(zout, Decode(ZigzagCurrent))
  /\ UNCHANGED zin
  /\ UNCHANGED otherThanZigzag

InitZigzag ==
  /\ StoresParked
  /\ ZigzagInit
  /\ SinkParked /\ ReaderParked /\ BloomParked

NextZigzag ==
  \/ ZigzagEncode
  \/ ZigzagDecode

SpecZigzag == InitZigzag /\ [][NextZigzag]_vars

\* ---------------------------------------------------------------- claims on the zig-zag coding

\* C37: encode maps a signed x >= 0 to 2x and x < 0 to -2x-1 (so 0, -1, 1,
\* -2, 2 to 0, 1, 2, 3, 4), the smallest and the largest value of the type
\* included; decode(encode(x)) = x for every signed x and
\* encode(decode(u)) = u for every unsigned u.
C37_ZigzagRoundTrip ==
  /\ (zin.kind = "signed" /\ Len(zout) >= 1)
       => zout[1] = IF zin.value >= 0 THEN 2 * zin.value
                    ELSE 0 - 2 * zin.value - 1
  /\ (zin.kind = "unsigned" /\ Len(zout) >= 1) => zout[1] \in SignedInts
  /\ Len(zout) = 2 => zout[2] = zin.value

\* Witness of C37: the smallest value of the signed type was encoded to the
\* largest value of the unsigned type and decoded again.
C37_Witness ==
  /\ zin = [kind |-> "signed", value |-> 0 - 2^(ZigzagBits - 1)]
  /\ Len(zout) = 2
  /\ zout[1] = 2^ZigzagBits - 1

\* ---------------------------------------------------------------- Bloom filters
otherThanBloom ==
  <<passiveVars, lkVars, activeVars, queryVars, partVars, sinkVars,
    readerVars, zigzagVars>>

AddRecord(f, d) ==
  [filter |-> f, digest |-> d,
   idx |-> IndexOf[d][filters[f].num_blocks_],
   mask |-> MaskOf[d.lo],
   before |-> filters[f], after |-> BloomAdd(filters[f], d)]

\* An element is added to one of the filters.
AddOne ==
  /\ bfhist.nadds < MaxAdds
  /\ \E f \in FilterNames, d \in Digests :
       /\ filters' = [filters EXCEPT ![f] = BloomAdd(@, d)]
       /\ bfhist' = [bfhist EXCEPT
                       !.added[f] = @ \cup {d},
                       !.same = FALSE,
                       !.nadds = @ + 1,
                       !.lastAdd = <<AddRecord(f, d)>>]
  /\ bfout' = <<>>
  /\ UNCHANGED otherThanBloom

\* An element is added to both filters.
AddBoth ==
  /\ bfhist.nadds < MaxAdds
  /\ \E d \in Digests :
       /\ filters' = [f \in FilterNames |-> BloomAdd(filters[f], d)]
       /\ bfhist' = [bfhist EXCEPT
                       !.added = [f \in FilterNames |-> @[f] \cup {d}],
                       !.nadds = @ + 1,
                       !.lastAdd = <<AddRecord("x", d)>>]
  /\ bfout' = <<>>
  /\ UNCHANGED otherThanBloom

\* An element is looked up in one of the filters; the result is kept until
\* the next add.
LookupOne ==
  /\ bfout = <<>>
  /\ \E f \in FilterNames, d \in Digests :
       bfout' = <<[op |-> "lookup", filter |-> f, digest |-> d,
                   idx |-> IndexOf[d][filters[f].num_blocks_],
                   mask |-> MaskOf[d.lo],
                   result |-> BloomLookup(filters[f], d)]>>
  /\ UNCHANGED <<filters, bfhist>>
  /\ UNCHANGED otherThanBloom

\* The two filters are compared, and the first with itself.
Compare ==
  /\ bfout = <<>>
  /\ bfout' = <<[op |-> "equal",
                 xy |-> BloomEquals(filters["x"], filters["y"]),
                 xx |-> BloomEquals(filters["x"], filters["x"])]>>
  /\ UNCHANGED <<filters, bfhist>>
  /\ UNCHANGED otherThanBloom

InitBloom ==
  /\ StoresParked
  /\ BloomInit
  /\ SinkParked /\ ReaderParked /\ ZigzagParked

NextBloom ==
  \/ AddOne
  \/ AddBoth
  \/ LookupOne
  \/ Compare

SpecBloom == InitBloom /\ [][NextBloom]_vars

\* ---------------------------------------------------------------- claims on the Bloom filters

\* C38: an element that was added to a filter is found by lookup; an add
\* changes one block only, whose index is in [0, num_blocks), and only by
\* setting the bits of its mask; a lookup tests the block and the mask
\* that the add of the same element used.
C38_NoFalseNegatives ==
  /\ \A i \in 1..Len(bfout) :
       (bfout[i].op = "lookup"
        /\ bfout[i].digest \in bfhist.added[bfout[i].filter])
         => bfout[i].result
  /\ \A i \in 1..Len(bfhist.lastAdd) :
       LET a == bfhist.lastAdd[i] IN
       /\ a.idx \in 0..(a.before.num_blocks_ - 1)
       /\ a.after.num_blocks_ = a.before.num_blocks_
       /\ \A b \in 1..a.before.num_blocks_ :
            a.after.blocks_[b] =
              IF b = a.idx + 1
                THEN [l \in 1..Lanes |-> a.before.blocks_[b][l] \cup a.mask[l]]
                ELSE a.before.blocks_[b]
       /\ \A j \in 1..Len(bfout) :
            (bfout[j].op = "lookup" /\ bfout[j].filter = a.filter
             /\ bfout[j].digest = a.digest)
              => bfout[j].idx = a.idx /\ bfout[j].mask = a.mask

\* Witness of C38: two elements were added to one block of a filter of
\* several blocks, and the one added first is looked up.
C38_Witness ==
  /\ bfout # <<>>
  /\ bfout[1].op = "lookup"
  /\ bfout[1].result
  /\ filters[bfout[1].filter].num_blocks_ > 1
  /\ bfout[1].idx > 0
  /\ Cardinality(bfhist.added[bfout[1].filter]) = 2
  /\ bfhist.lastAdd[1].filter = bfout[1].filter
  /\ bfhist.lastAdd[1].digest # bfout[1].digest
  /\ bfhist.lastAdd[1].idx = bfout[1].idx
  /\ bfout[1].digest \in bfhist.added[bfout[1].filter]

\* C39: two filters compare equal exactly when they have the same number
\* of blocks and the same block contents; a filter equals itself; two
\* filters built by the same adds compare equal.
C39_Equality ==
  \A i \in 1..Len(bfout) :
    bfout[i].op = "equal" =>
      /\ bfout[i].xy <=> (/\ filters["x"].num_blocks_ = filters["y"].num_blocks_
                          /\ filters["x"].blocks_ = filters["y"].blocks_)
      /\ bfout[i].xx
      /\ bfhist.same => bfout[i].xy
====
